---------------------------- MODULE Spec2Model ----------------------------
(***************************************************************************)
(* A model of bot.py, the Belgium War Era welcome and verification bot.     *)
(*                                                                         *)
(* The bot runs on one asyncio event loop: a handler runs without          *)
(* interruption from one await to the next.  Every action below is one such *)
(* uninterrupted piece: the completion of the await a handler is suspended *)
(* at, followed by the synchronous code up to the next await.  The private *)
(* (ephemeral) interaction response is delivered with the piece that sends *)
(* it.                                                                     *)
(*                                                                         *)
(* Strings are TLA+ strings, handled character by character with Len,      *)
(* SubSeq and \o.  None is 0 for identifiers and roles.                    *)
(***************************************************************************)
EXTENDS Integers, Sequences, FiniteSets, TLC

VARIABLES
    file,        \* the contents of config.json
    config,      \* the module-level global `config`
    members,     \* ids of the users that are members of the guild
    memberRoles, \* user id -> set of role ids the member holds
    channels,    \* channel id -> the channel (a record, see NoChannel)
    tickets,     \* the create_verification_channel invocations, in start order
    decisions,   \* the approve / deny invocations, in start order
    nSetups,     \* number of setup commands run so far
    replies      \* the private replies of view-config and test-welcome, in order

vars ==
    <<file, config, members, memberRoles, channels, tickets, decisions, nSetups,
      replies>>

----------------------------------------------------------------------------
(* Bounds of the model *)

\* Spec, the whole bot: how many tickets are asked for, how many approve and
\* deny commands and how many setup commands are run.
MaxTickets == 1
MaxDecisions == 1
MaxSetups == 1

\* PairSpec, several decisions on one ticket
PairDecisions == 2
MaxJoins == 1

\* RaceSpec, several tickets asked for at once
RaceTickets == 2

\* ConfigSpec, the commands that read and write config.json
ConfigSetups == 2
MaxViews == 1

----------------------------------------------------------------------------
(* Strings *)

Min(a, b) == IF a <= b THEN a ELSE b

Char(s, i) == SubSeq(s, i, i)

StartsWith(s, p) == Len(s) >= Len(p) /\ SubSeq(s, 1, Len(p)) = p

\* Python: p in s
Contains(s, p) ==
    \E i \in 1..(Len(s) - Len(p) + 1) : SubSeq(s, i, i + Len(p) - 1) = p

UpperChars == "ABCDEFGHIJKLMNOPQRSTUVWXYZ"
LowerChars == "abcdefghijklmnopqrstuvwxyz"

LowerChar(c) ==
    IF \E i \in 1..Len(UpperChars) : Char(UpperChars, i) = c
    THEN Char(LowerChars, CHOOSE i \in 1..Len(UpperChars) : Char(UpperChars, i) = c)
    ELSE c

\* str.lower()
RECURSIVE Lower(_)
Lower(s) ==
    IF Len(s) <= 1 THEN LowerChar(s)
    ELSE Lower(SubSeq(s, 1, Len(s) \div 2)) \o Lower(SubSeq(s, Len(s) \div 2 + 1, Len(s)))

\* str.replace(a, b) for a one-character a
RECURSIVE Replace(_, _, _)
Replace(s, a, b) ==
    IF Len(s) <= 1 THEN (IF s = a THEN b ELSE s)
    ELSE Replace(SubSeq(s, 1, Len(s) \div 2), a, b)
            \o Replace(SubSeq(s, Len(s) \div 2 + 1, Len(s)), a, b)

\* s[:n]
Truncate(s, n) == SubSeq(s, 1, Min(Len(s), n))

\* str.split(sep) for a one-character sep: the pieces of s from position `from` on
RECURSIVE SplitFrom(_, _, _)
SplitFrom(s, sep, from) ==
    LET hits == {i \in from..Len(s) : Char(s, i) = sep}
    IN  IF hits = {} THEN <<SubSeq(s, from, Len(s))>>
        ELSE LET i == CHOOSE k \in hits : \A j \in hits : k <= j
             IN  <<SubSeq(s, from, i - 1)>> \o SplitFrom(s, sep, i + 1)

Split(s, sep) == SplitFrom(s, sep, 1)

\* str.strip(), the whitespace being the space
RECURSIVE Strip(_)
Strip(s) ==
    IF s = "" THEN ""
    ELSE IF Char(s, 1) = " " THEN Strip(SubSeq(s, 2, Len(s)))
    ELSE IF Char(s, Len(s)) = " " THEN Strip(SubSeq(s, 1, Len(s) - 1))
    ELSE s

Digits == "0123456789"

IsDigit(c) == \E i \in 1..10 : Char(Digits, i) = c

DigitValue(c) == (CHOOSE i \in 1..10 : Char(Digits, i) = c) - 1

IsDigits(s) == s # "" /\ \A i \in 1..Len(s) : IsDigit(Char(s, i))

RECURSIVE DigitsValue(_)
DigitsValue(s) ==
    IF s = "" THEN 0
    ELSE 10 * DigitsValue(SubSeq(s, 1, Len(s) - 1)) + DigitValue(Char(s, Len(s)))

\* int(s) of a stripped s: an optional sign and decimal digits, otherwise ValueError
IntOk(s) ==
    \/ IsDigits(s)
    \/ Len(s) >= 2 /\ Char(s, 1) \in {"+", "-"} /\ IsDigits(SubSeq(s, 2, Len(s)))

IntValue(s) ==
    IF IsDigits(s) THEN DigitsValue(s)
    ELSE IF Char(s, 1) = "-" THEN 0 - DigitsValue(SubSeq(s, 2, Len(s)))
    ELSE DigitsValue(SubSeq(s, 2, Len(s)))

\* str(n) of a natural number, as an f-string formats it
RECURSIVE Str(_)
Str(n) == IF n < 10 THEN Char(Digits, n + 1) ELSE Str(n \div 10) \o Char(Digits, (n % 10) + 1)


----------------------------------------------------------------------------
(* The guild the bot serves: the part of Discord the handlers read *)

\* A name of 110 characters
LongName ==
    LET ten == "Long-Name " IN ten \o ten \o ten \o ten \o ten \o ten \o ten \o ten
                               \o ten \o ten \o ten

\* The users that press buttons; a user's id is its Discord id.
Users == {7, 42}

\* user.name; names may hold upper case, spaces and the topic's own separators.
UserName(u) ==
    CASE u = 7 -> "Al Ice"
      [] u = 42 -> "Eve | User ID: 7"
      [] u = 365 -> "Jo-Ann: 12"
      [] OTHER -> LongName

\* More users, of other names: one with a hyphen and a colon before digits,
\* one whose name is longer than a channel name may be.
Guests == {365, 1000}

\* The roles that exist in the guild, and an id whose role was deleted.
GuildRoleIds == 1..4
StaleRoleIds == {9}

\* A lookup that finds a role for every id bound, deleted or not
get_role_of_any(id) == id

\* guild.get_role(id): the role, or None (0) for None and for a deleted role
get_role(id) == IF id \in GuildRoleIds THEN id ELSE 0

\* The channels that exist before any ticket: a text channel that can serve as
\* log and welcome channel, a text channel that is no ticket although its name
\* begins like one, and a category.
LogChannel == 1
LoungeChannel == 2
Category == 3
NumStatic == 3
StaleChannelIds == {9}

ChannelIds == 1..(NumStatic + MaxTickets + RaceTickets)

NoChannel ==
    [exists |-> FALSE, name |-> "", topic |-> "", category |-> 0,
     viewers |-> {}, messages |-> <<>>]

StaticChannel(c) ==
    [NoChannel EXCEPT !.exists = TRUE,
                      !.name = CASE c = LogChannel -> "citizens-log"
                                 [] c = LoungeChannel -> "citizen-lounge"
                                 [] OTHER -> "Tickets"]

\* guild.get_channel(id): the id of the channel when it exists, else None (0)
get_channel(id) == IF id \in ChannelIds /\ channels[id].exists THEN id ELSE 0

\* A lookup that still finds a member who left
get_member_gone_too(id) == id

\* guild.get_member(id)
get_member(id) == IF id \in members THEN id ELSE 0

\* The people that run /approve and /deny, with the roles they hold.
Actors == {"nobody", "belgian", "guard", "admin"}

ActorRoles(a) ==
    CASE a = "belgian" -> {1}
      [] a = "guard" -> {3}
      [] OTHER -> {}

ActorIsAdministrator(a) == a = "admin"

Reasons == {"No reason provided", "id verified"}

RequestTypes == {"citizen", "foreigner", "embassy"}

----------------------------------------------------------------------------
(* Configuration *)

RoleKeys ==
    {"belgian", "foreigner", "border_control", "minister_foreign_affairs",
     "president", "vice_president", "government"}

DEFAULT_CONFIG ==
    [welcome_channel_id |-> 0,
     verification_category_id |-> 0,
     log_channel_id |-> 0,
     roles |-> [k \in RoleKeys |-> 0],
     welcome_message |-> "Welcome",
     ticket_counter |-> 0]

\* A configuration that is the defaults whatever the file holds
load_config_defaults_only == DEFAULT_CONFIG

\* load_config(): the file's contents (which hold every key once the bot wrote
\* them), or the defaults when there is no file.  file is <<>> or <<contents>>.
load_config == IF file # <<>> THEN file[1] ELSE DEFAULT_CONFIG

\* A write that does not reach the file
save_config_lost(c) == file

\* save_config(c): the file as it is after the write
save_config(c) == <<c>>

\* A configuration an earlier run of the bot left in config.json: an installed
\* guild, whose bindings may name roles and channels deleted since.
InstalledConfigs ==
    { [DEFAULT_CONFIG EXCEPT
          !.roles = [k \in RoleKeys |->
                        CASE k = "belgian" -> x.belgian
                          [] k = "foreigner" -> 2
                          [] k = "border_control" -> 3
                          [] k = "president" -> 4
                          [] k = "vice_president" -> x.vice_president
                          [] OTHER -> 0],
          !.log_channel_id = x.log_channel_id,
          !.verification_category_id = Category,
          !.ticket_counter = x.ticket_counter] :
        x \in {[belgian |-> 1, vice_president |-> 0, log_channel_id |-> LogChannel,
                 ticket_counter |-> 0],
                [belgian |-> 9, vice_president |-> 9, log_channel_id |-> 9,
                 ticket_counter |-> 9]} }


----------------------------------------------------------------------------
(* Messages and invocation records *)

\* A message in a channel: what it says, and `inv`, the index of the invocation
\* that posted it.  reason and actor are "" where the message holds none.
Message(kind, mentions, user, request_type, role, reason, actor, inv) ==
    [kind |-> kind, mentions |-> mentions, user |-> user,
     request_type |-> request_type, role |-> role, reason |-> reason,
     actor |-> actor, inv |-> inv]

Post(chans, c, m) == [chans EXCEPT ![c].messages = Append(@, m)]

\* One create_verification_channel invocation: its locals and where it stands.
NewTicket ==
    [pc |-> "start", request_type |-> "", user |-> 0, ticket_id |-> 0,
     channel_name |-> "", topic |-> "", role_ids |-> <<>>, category |-> 0,
     viewers |-> {}, channel |-> 0, response |-> "none"]

\* The bindings of a configuration that approve and deny read
Bindings(cfg) == [roles |-> cfg.roles, log_channel_id |-> cfg.log_channel_id]

\* One approve or deny invocation: its locals and where it stands.  `loaded`
\* is what load_config returned when the invocation started (lines 594, 754),
\* for as long as the invocation is under way.
NewDecision ==
    [op |-> "", pc |-> "start", channel |-> 0, actor |-> "", reason |-> "",
     user_id |-> 0, member |-> 0, request_type |-> "", role_to_give |-> 0,
     log_channel |-> 0, log_posted |-> FALSE, response |-> "none",
     warning |-> FALSE, loaded |-> Bindings(DEFAULT_CONFIG)]

\* A handler that returned or raised: its locals are gone; what stays is who
\* ran it, where, and the reply.
TicketOver(t, response) ==
    [NewTicket EXCEPT !.pc = "done", !.ticket_id = t.ticket_id,
                      !.channel = t.channel, !.response = response]

\* A return that falls through to the sleep and the deletion
DecisionOverFallsThrough(d, response) ==
    [NewDecision EXCEPT !.op = d.op, !.channel = d.channel, !.actor = d.actor,
                        !.pc = IF d.pc = "sleep" THEN "done" ELSE "sleep",
                        !.response = response,
                        !.log_posted = d.log_posted, !.warning = d.warning]

DecisionOver(d, response) ==
    [NewDecision EXCEPT !.op = d.op, !.channel = d.channel, !.actor = d.actor,
                        !.pc = "done", !.response = response,
                        !.log_posted = d.log_posted, !.warning = d.warning]

----------------------------------------------------------------------------
(* create_verification_channel *)

ChannelNameLimit == 100

\* The name of the ticket channel (lines 166-189)
TicketChannelName(request_type, ticket_id, user) ==
    Truncate(
        Replace(Lower(request_type \o "-" \o Str(ticket_id) \o "-" \o UserName(user)),
                " ", "-"),
        ChannelNameLimit)

\* A topic that names the user id before the user's name
TicketTopicIdFirst(request_type, ticket_id, user) ==
    "User ID: " \o Str(user) \o " | Verification request by " \o UserName(user)
        \o " | Type: " \o request_type \o " | ID: " \o Str(ticket_id)

\* The topic that keeps the ticket's data (line 243)
TicketTopic(request_type, ticket_id, user) ==
    "Verification request by " \o UserName(user) \o " | Type: " \o request_type
        \o " | ID: " \o Str(ticket_id) \o " | User ID: " \o Str(user)

\* Every moderator role is told, whatever the type
NotifiedRoleIdsOfAnyType(cfg, request_type) ==
    <<cfg.roles["border_control"], cfg.roles["minister_foreign_affairs"],
      cfg.roles["president"], cfg.roles["vice_president"]>>

\* The roles told of a request of this type (lines 166-186)
NotifiedRoleIds(cfg, request_type) ==
    IF request_type \in {"citizen", "foreigner"}
    THEN <<cfg.roles["border_control"]>>
    ELSE <<cfg.roles["minister_foreign_affairs"], cfg.roles["president"],
           cfg.roles["vice_president"]>>

\* The roles of role_ids that are set and exist (lines 215-218, 259-262)
ResolvedRoles(role_ids) ==
    {get_role(role_ids[i]) : i \in {j \in 1..Len(role_ids) :
                                      role_ids[j] # 0 /\ get_role(role_ids[j]) # 0}}

\* Who may view the channel: everyone else is denied (lines 198-223)
Overwrites(user, role_ids) ==
    {<<"user", user>>, <<"bot", 0>>} \cup {<<"role", r>> : r \in ResolvedRoles(role_ids)}

\* The channel a ticket invocation creates
TicketChannelId(i) == NumStatic + i

\* A counter that is read and not raised
KeepCounter(cfg) == cfg

\* config["ticket_counter"] += 1 (line 162)
IncrementCounter(cfg) == [cfg EXCEPT !.ticket_counter = @ + 1]

\* A creation that does not look at the bot's permissions in the category
CreateStartUnchecked(u, rt, canManage) ==
    /\ u \in members
    /\ LET cfg == IncrementCounter(load_config)
           ticket_id == cfg.ticket_counter
           role_ids == NotifiedRoleIds(cfg, rt)
           category == IF cfg.verification_category_id # 0
                       THEN get_channel(cfg.verification_category_id) ELSE 0
           refused == FALSE
           new == [NewTicket EXCEPT
                   !.request_type = rt, !.user = u, !.ticket_id = ticket_id,
                   !.channel_name = TicketChannelName(rt, ticket_id, u),
                   !.topic = TicketTopic(rt, ticket_id, u),
                   !.role_ids = role_ids, !.category = category,
                   !.viewers = Overwrites(u, role_ids),
                   !.pc = "create_text_channel"]
           t == IF refused THEN TicketOver(new, "no_category_permission") ELSE new
       IN  /\ config' = cfg
           /\ file' = save_config(cfg)
           /\ tickets' = Append(tickets, t)
    /\ UNCHANGED <<members, memberRoles, channels, decisions, nSetups, replies>>

\* Lines 155-234: the counter is read, incremented and written without an
\* await in between; then the name, the category and the overwrites.
CreateStart(u, rt, canManage) ==
    /\ u \in members
    /\ LET cfg == IncrementCounter(load_config)
           ticket_id == cfg.ticket_counter
           role_ids == NotifiedRoleIds(cfg, rt)
           category == IF cfg.verification_category_id # 0
                       THEN get_channel(cfg.verification_category_id) ELSE 0
           refused == category # 0 /\ ~canManage
           new == [NewTicket EXCEPT
                   !.request_type = rt, !.user = u, !.ticket_id = ticket_id,
                   !.channel_name = TicketChannelName(rt, ticket_id, u),
                   !.topic = TicketTopic(rt, ticket_id, u),
                   !.role_ids = role_ids, !.category = category,
                   !.viewers = Overwrites(u, role_ids),
                   !.pc = "create_text_channel"]
           t == IF refused THEN TicketOver(new, "no_category_permission") ELSE new
       IN  /\ config' = cfg
           /\ file' = save_config(cfg)
           /\ tickets' = Append(tickets, t)
    /\ UNCHANGED <<members, memberRoles, channels, decisions, nSetups, replies>>

\* A refused creation that puts the counter in config.json back
CreateChannelRollsBack(i, outcome) ==
    /\ i \in 1..Len(tickets)
    /\ tickets[i].pc = "create_text_channel"
    /\ LET t == tickets[i]
           c == TicketChannelId(i)
           back == [load_config EXCEPT !.ticket_counter = t.ticket_id - 1]
       IN  IF outcome = "ok"
           THEN /\ channels' = [channels EXCEPT ![c] =
                       [exists |-> TRUE, name |-> t.channel_name, topic |-> t.topic,
                        category |-> t.category, viewers |-> t.viewers,
                        messages |-> <<>>]]
                /\ tickets' = [tickets EXCEPT ![i].channel = c, ![i].pc = "channel_send"]
                /\ UNCHANGED <<file, config>>
           ELSE /\ tickets' = [tickets EXCEPT ![i] = TicketOver(t, "create_forbidden")]
                /\ config' = back
                /\ file' = save_config(back)
                /\ UNCHANGED channels
    /\ UNCHANGED <<members, memberRoles, decisions, nSetups, replies>>

\* Lines 236-263: guild.create_text_channel answers; Forbidden is reported.
CreateChannel(i, outcome) ==
    /\ i \in 1..Len(tickets)
    /\ tickets[i].pc = "create_text_channel"
    /\ LET t == tickets[i]
           c == TicketChannelId(i)
       IN  IF outcome = "ok"
           THEN /\ channels' = [channels EXCEPT ![c] =
                       [exists |-> TRUE, name |-> t.channel_name, topic |-> t.topic,
                        category |-> t.category, viewers |-> t.viewers,
                        messages |-> <<>>]]
                /\ tickets' = [tickets EXCEPT ![i].channel = c, ![i].pc = "channel_send"]
           ELSE /\ tickets' = [tickets EXCEPT ![i] = TicketOver(t, "create_forbidden")]
                /\ UNCHANGED channels
    /\ UNCHANGED <<file, config, members, memberRoles, decisions, nSetups, replies>>

\* Lines 265-289: the ticket message is posted and the requester answered; a
\* channel deleted meanwhile makes channel.send raise, which ends the handler.
TicketSend(i) ==
    /\ i \in 1..Len(tickets)
    /\ tickets[i].pc = "channel_send"
    /\ LET t == tickets[i]
           mentions == {<<"role", r>> : r \in ResolvedRoles(t.role_ids)}
       IN  IF channels[t.channel].exists
           THEN /\ channels' = Post(channels, t.channel,
                       Message("ticket", mentions, t.user, t.request_type, 0, "", "", i))
                /\ tickets' = [tickets EXCEPT ![i] = TicketOver(t, "created")]
           ELSE /\ tickets' = [tickets EXCEPT ![i] = TicketOver(t, "raised")]
                /\ UNCHANGED channels
    /\ UNCHANGED <<file, config, members, memberRoles, decisions, nSetups, replies>>


----------------------------------------------------------------------------
(* The setup commands: load, change the bindings given, save (no await between) *)

NoRoleArgs == [k \in RoleKeys |-> 0]

\* The role arguments tried: none, two at once, one.  The parameter `minister`
\* is named here by the key it sets.
SetupRolesArgs ==
    {NoRoleArgs,
     [NoRoleArgs EXCEPT !["belgian"] = 1, !["border_control"] = 3],
     [NoRoleArgs EXCEPT !["president"] = 4]}

NoChannelArgs == [welcome_channel |-> 0, verification_category |-> 0, log_channel |-> 0]

SetupChannelsArgs ==
    {NoChannelArgs,
     [NoChannelArgs EXCEPT !.log_channel = LogChannel],
     [NoChannelArgs EXCEPT !.welcome_channel = LogChannel,
                           !.verification_category = Category]}

WelcomeMessages == {"Hello"}

\* setup_roles (lines 381-409)
SetupRolesConfig(cfg, args) ==
    [cfg EXCEPT !.roles = [k \in RoleKeys |-> IF args[k] # 0 THEN args[k] ELSE @[k]]]

\* setup_channels (lines 446-461)
SetupChannelsConfig(cfg, args) ==
    [cfg EXCEPT
        !.welcome_channel_id =
            IF args.welcome_channel # 0 THEN args.welcome_channel ELSE @,
        !.verification_category_id =
            IF args.verification_category # 0 THEN args.verification_category ELSE @,
        !.log_channel_id = IF args.log_channel # 0 THEN args.log_channel ELSE @]

\* A setup that writes the message into a fresh default configuration
SetupMessageConfigFromDefaults(cfg, message) ==
    [DEFAULT_CONFIG EXCEPT !.welcome_message = message]

\* setup_message (lines 484-488)
SetupMessageConfig(cfg, message) == [cfg EXCEPT !.welcome_message = message]

Setup(cfg) ==
    /\ config' = cfg
    /\ file' = save_config(cfg)
    /\ nSetups' = nSetups + 1
    /\ UNCHANGED <<members, memberRoles, channels, tickets, decisions, replies>>

SetupRoles(args) == Setup(SetupRolesConfig(load_config, args))

SetupChannels(args) == Setup(SetupChannelsConfig(load_config, args))

SetupMessage(message) == Setup(SetupMessageConfig(load_config, message))

----------------------------------------------------------------------------
(* approve and deny *)

TicketPrefixes == {"citizen-", "foreigner-", "embassy-"}

\* A check that forgets the hyphen of the prefixes
IsTicketNameNoHyphen(name) == \E t \in RequestTypes : StartsWith(name, t)

\* channel.name.startswith(("citizen-", "foreigner-", "embassy-"))
IsTicketName(name) == \E p \in TicketPrefixes : StartsWith(name, p)

\* mod_roles (lines 607-612, 767-772)
ModRoles(cfg) ==
    <<cfg.roles["border_control"], cfg.roles["minister_foreign_affairs"],
      cfg.roles["president"], cfg.roles["vice_president"]>>

\* A check that takes any configured role for a moderator role
HasPermissionAnyRole(cfg, actor) ==
    \E k \in RoleKeys : cfg.roles[k] # 0 /\ cfg.roles[k] \in ActorRoles(actor)

\* has_permission (lines 614-615, 774-775)
HasPermission(cfg, actor) ==
    \E i \in 1..4 : ModRoles(cfg)[i] # 0 /\ ModRoles(cfg)[i] \in ActorRoles(actor)

\* The check of lines 617 and 777
MayModerate(cfg, actor) == HasPermission(cfg, actor) \/ ActorIsAdministrator(actor)

\* The loop of lines 627-632 from part i on: the last part that holds
\* "User ID:" and ends in an integer gives the id.
RECURSIVE UserIdFrom(_, _, _)
UserIdFrom(parts, i, user_id) ==
    IF i > Len(parts) THEN user_id
    ELSE LET pieces == Split(parts[i], ":")
             last == Strip(pieces[Len(pieces)])
         IN  IF Contains(parts[i], "User ID:") /\ IntOk(last)
             THEN UserIdFrom(parts, i + 1, IntValue(last))
             ELSE UserIdFrom(parts, i + 1, user_id)

\* user_id of lines 624-632 and 784-792; 0 is None
ParseUserId(topic) == UserIdFrom(Split(topic, "|"), 1, 0)

\* request_type (lines 650, 795)
RequestTypeOf(name) == Split(name, "-")[1]

\* A grant that takes the other type's role
RoleToGiveSwapped(cfg, request_type) ==
    CASE request_type = "citizen" -> get_role(cfg.roles["foreigner"])
      [] request_type = "foreigner" -> get_role(cfg.roles["belgian"])
      [] OTHER -> 0

\* A grant that gives the embassy requester a role too
RoleToGiveEmbassyToo(cfg, request_type) ==
    CASE request_type = "citizen" -> get_role(cfg.roles["belgian"])
      [] request_type = "foreigner" -> get_role(cfg.roles["foreigner"])
      [] OTHER -> get_role(cfg.roles["president"])

\* role_to_give (lines 651-657)
RoleToGive(cfg, request_type) ==
    CASE request_type = "citizen" -> get_role(cfg.roles["belgian"])
      [] request_type = "foreigner" -> get_role(cfg.roles["foreigner"])
      [] OTHER -> 0

\* The channels a slash command can be run in
TextChannels == {c \in ChannelIds : c # Category /\ channels[c].exists}

\* A start that rejects a decision on a channel that holds a decision already
DecisionStartOnce(op, c, actor, reason, cfg) ==
    LET name == channels[c].name
        user_id == ParseUserId(channels[c].topic)
        member == IF user_id # 0 THEN get_member(user_id) ELSE 0
        request_type == RequestTypeOf(name)
        role == IF op = "approve" THEN RoleToGive(cfg, request_type) ELSE 0
        d == [NewDecision EXCEPT !.op = op, !.channel = c, !.actor = actor,
                                 !.reason = reason]
        rejected(why) == DecisionOver(d, why)
        decided == \E k \in 1..Len(channels[c].messages) :
                       channels[c].messages[k].kind \in {"approved", "denied"}
    IN  IF ~IsTicketName(name) THEN rejected("not_ticket")
        ELSE IF ~MayModerate(cfg, actor) THEN rejected("unauthorized")
        ELSE IF decided THEN rejected("already_decided")
        ELSE IF op = "approve" /\ user_id = 0 THEN rejected("no_user")
        ELSE IF op = "approve" /\ member = 0 THEN rejected("member_left")
        ELSE [d EXCEPT !.user_id = user_id, !.member = member,
                       !.request_type = request_type, !.role_to_give = role,
                       !.loaded = Bindings(cfg),
                       !.pc = IF role # 0 THEN "add_roles" ELSE "channel_send"]

\* The invocation as it stands at its first await, or at its return when a
\* check rejects it (lines 593-657 and 753-795).
DecisionStart(op, c, actor, reason, cfg) ==
    LET name == channels[c].name
        user_id == ParseUserId(channels[c].topic)
        member == IF user_id # 0 THEN get_member(user_id) ELSE 0
        request_type == RequestTypeOf(name)
        role == IF op = "approve" THEN RoleToGive(cfg, request_type) ELSE 0
        d == [NewDecision EXCEPT !.op = op, !.channel = c, !.actor = actor,
                                 !.reason = reason]
        rejected(why) == DecisionOver(d, why)
    IN  IF ~IsTicketName(name) THEN rejected("not_ticket")
        ELSE IF ~MayModerate(cfg, actor) THEN rejected("unauthorized")
        ELSE IF op = "approve" /\ user_id = 0 THEN rejected("no_user")
        ELSE IF op = "approve" /\ member = 0 THEN rejected("member_left")
        ELSE [d EXCEPT !.user_id = user_id, !.member = member,
                       !.request_type = request_type, !.role_to_give = role,
                       !.loaded = Bindings(cfg),
                       !.pc = IF role # 0 THEN "add_roles" ELSE "channel_send"]

Decide(op, c, actor, reason) ==
    /\ c \in TextChannels
    /\ config' = load_config
    /\ decisions' = Append(decisions, DecisionStart(op, c, actor, reason, load_config))
    /\ UNCHANGED <<file, members, memberRoles, channels, tickets, nSetups, replies>>

Approve(c, actor, reason) == Decide("approve", c, actor, reason)

Deny(c, actor, reason) == Decide("deny", c, actor, reason)


\* What the platform can answer to member.add_roles and to a post in the log
\* channel: the call succeeds, or raises discord.Forbidden, or raises another
\* discord.HTTPException.
CallOutcomes == {"ok", "forbidden", "http_error"}

\* A grant whose refusal is reported and does not end the approval
AddRolesGoesOn(i, outcome) ==
    /\ i \in 1..Len(decisions)
    /\ decisions[i].pc = "add_roles"
    /\ outcome = "ok" => decisions[i].member \in members
    /\ memberRoles' = IF outcome = "ok"
                      THEN [memberRoles EXCEPT ![decisions[i].member] =
                               @ \cup {decisions[i].role_to_give}]
                      ELSE memberRoles
    /\ decisions' = [decisions EXCEPT ![i].pc = "channel_send"]
    /\ UNCHANGED <<file, config, members, channels, tickets, nSetups, replies>>

\* Lines 659-676: member.add_roles answers; a member who left cannot be given
\* a role (the platform answers 404, an HTTPException).
AddRoles(i, outcome) ==
    /\ i \in 1..Len(decisions)
    /\ decisions[i].pc = "add_roles"
    /\ outcome = "ok" => decisions[i].member \in members
    /\ LET d == decisions[i]
       IN  CASE outcome = "ok" ->
                  /\ memberRoles' = [memberRoles EXCEPT ![d.member] = @ \cup {d.role_to_give}]
                  /\ decisions' = [decisions EXCEPT ![i].pc = "channel_send"]
             [] outcome = "forbidden" ->
                  /\ decisions' = [decisions EXCEPT ![i] = DecisionOver(d, "role_forbidden")]
                  /\ UNCHANGED memberRoles
             [] OTHER ->
                  /\ decisions' = [decisions EXCEPT ![i] = DecisionOver(d, "role_http_error")]
                  /\ UNCHANGED memberRoles
    /\ UNCHANGED <<file, config, members, channels, tickets, nSetups, replies>>

\* A notification that mentions whatever the lookup gave
NotificationMentionsAlways(d, i) ==
    Message(IF d.op = "approve" THEN "approved" ELSE "denied",
            {<<"user", d.member>>}, 0, d.request_type, d.role_to_give, "", "", i)

\* A notification that tells the requester the reason
NotificationWithReason(d, i) ==
    Message(IF d.op = "approve" THEN "approved" ELSE "denied",
            IF d.member # 0 THEN {<<"user", d.member>>} ELSE {},
            0, d.request_type, d.role_to_give, d.reason, "", i)

\* The message for the requester (lines 678-688 and 797-808): no reason in it
Notification(d, i) ==
    Message(IF d.op = "approve" THEN "approved" ELSE "denied",
            IF d.member # 0 THEN {<<"user", d.member>>} ELSE {},
            0, d.request_type, d.role_to_give, "", "", i)

\* A log entry that leaves the reason out
LogEntryNoReason(d, i) ==
    Message(IF d.op = "approve" THEN "log_approved" ELSE "log_denied",
            {}, d.member, d.request_type, d.role_to_give, "", d.actor, i)

\* The log entry (lines 696-711 and 816-831)
LogEntry(d, i) ==
    Message(IF d.op = "approve" THEN "log_approved" ELSE "log_denied",
            {}, d.member, d.request_type, d.role_to_give, d.reason, d.actor, i)

\* An acknowledgment that warns whenever nothing was logged
AcknowledgeWarnsUnlogged(d, cfg) ==
    [NewDecision EXCEPT !.op = d.op, !.channel = d.channel, !.actor = d.actor,
                        !.pc = "sleep", !.log_posted = d.log_posted,
                        !.response = "ack", !.warning = ~d.log_posted]

\* Lines 720-732 and 840-854: the private summary for the moderator, with the
\* warning when a log channel is configured and nothing was logged.
Acknowledge(d, cfg) ==
    [NewDecision EXCEPT !.op = d.op, !.channel = d.channel, !.actor = d.actor,
                        !.pc = "sleep", !.log_posted = d.log_posted,
                        !.response = "ack",
                        !.warning = ~d.log_posted /\ cfg.log_channel_id # 0]

\* A decision that logs where the configuration it loaded at its start says
AfterNotificationOfSnapshot(d, cfg) ==
    IF d.loaded.log_channel_id # 0 /\ get_channel(d.loaded.log_channel_id) # 0
    THEN [d EXCEPT !.log_channel = get_channel(d.loaded.log_channel_id),
                   !.pc = "log_send"]
    ELSE Acknowledge(d, [cfg EXCEPT !.log_channel_id = d.loaded.log_channel_id])

\* Lines 690-694 and 810-814, 717-718: is there a log channel to post to
AfterNotification(d, cfg) ==
    IF cfg.log_channel_id # 0 /\ get_channel(cfg.log_channel_id) # 0
    THEN [d EXCEPT !.log_channel = get_channel(cfg.log_channel_id), !.pc = "log_send"]
    ELSE Acknowledge(d, cfg)

\* A denial that takes the roles of the requester away
ChannelSendRevokes(i) ==
    /\ i \in 1..Len(decisions)
    /\ decisions[i].pc = "channel_send"
    /\ LET d == decisions[i]
       IN  IF channels[d.channel].exists
           THEN /\ channels' = Post(channels, d.channel, Notification(d, i))
                /\ decisions' = [decisions EXCEPT ![i] = AfterNotification(d, config)]
                /\ memberRoles' = IF d.op = "deny" /\ d.member # 0
                                  THEN [memberRoles EXCEPT ![d.member] = {}]
                                  ELSE memberRoles
           ELSE /\ decisions' = [decisions EXCEPT ![i] = DecisionOver(d, "raised")]
                /\ UNCHANGED <<channels, memberRoles>>
    /\ UNCHANGED <<file, config, members, tickets, nSetups, replies>>

\* Lines 688-694 and 805-814: the notification is posted in the ticket
\* channel; posting in a channel deleted meanwhile raises and ends the handler.
ChannelSend(i) ==
    /\ i \in 1..Len(decisions)
    /\ decisions[i].pc = "channel_send"
    /\ LET d == decisions[i]
       IN  IF channels[d.channel].exists
           THEN /\ channels' = Post(channels, d.channel, Notification(d, i))
                /\ decisions' = [decisions EXCEPT ![i] = AfterNotification(d, config)]
           ELSE /\ decisions' = [decisions EXCEPT ![i] = DecisionOver(d, "raised")]
                /\ UNCHANGED channels
    /\ UNCHANGED <<file, config, members, memberRoles, tickets, nSetups, replies>>

\* Lines 711-732 and 831-854: the post in the log channel answers
LogSend(i, outcome) ==
    /\ i \in 1..Len(decisions)
    /\ decisions[i].pc = "log_send"
    /\ LET d == decisions[i]
       IN  IF outcome = "ok"
           THEN /\ channels' = Post(channels, d.log_channel, LogEntry(d, i))
                /\ decisions' = [decisions EXCEPT ![i] =
                                    Acknowledge([d EXCEPT !.log_posted = TRUE], config)]
           ELSE /\ decisions' = [decisions EXCEPT ![i] = Acknowledge(d, config)]
                /\ UNCHANGED channels
    /\ UNCHANGED <<file, config, members, memberRoles, tickets, nSetups, replies>>

\* A platform that never answers the deletion of a channel that is gone
DeleteOutcomesOfLiveOnly(c) == IF channels[c].exists THEN {"ok", "forbidden"} ELSE {}

\* What channel.delete can answer once the 30 seconds are over
DeleteOutcomes(c) == IF channels[c].exists THEN {"ok", "forbidden"} ELSE {"not_found"}

\* A deletion whose refusal is not caught and ends the handler with an error
DeleteChannelRaises(i, outcome) ==
    /\ i \in 1..Len(decisions)
    /\ decisions[i].pc = "sleep"
    /\ outcome \in DeleteOutcomes(decisions[i].channel)
    /\ channels' = IF outcome = "ok"
                   THEN [channels EXCEPT ![decisions[i].channel] = NoChannel]
                   ELSE channels
    /\ decisions' = [decisions EXCEPT ![i] =
                        DecisionOver(@, IF outcome = "ok" THEN "ack" ELSE "raised")]
    /\ UNCHANGED <<file, config, members, memberRoles, tickets, nSetups, replies>>

\* Lines 734-739 and 856-861: the sleep is over and channel.delete answers;
\* NotFound and Forbidden are printed and dropped.
DeleteChannel(i, outcome) ==
    /\ i \in 1..Len(decisions)
    /\ decisions[i].pc = "sleep"
    /\ outcome \in DeleteOutcomes(decisions[i].channel)
    /\ channels' = IF outcome = "ok"
                   THEN [channels EXCEPT ![decisions[i].channel] = NoChannel]
                   ELSE channels
    /\ decisions' = [decisions EXCEPT ![i] = DecisionOver(@, "ack")]
    /\ UNCHANGED <<file, config, members, memberRoles, tickets, nSetups, replies>>

----------------------------------------------------------------------------
(* The guild changes by itself *)

\* A member leaves the guild, and with that loses the roles held.
MemberLeaves(u) ==
    /\ u \in members
    /\ members' = members \ {u}
    /\ memberRoles' = [memberRoles EXCEPT ![u] = {}]
    /\ UNCHANGED <<file, config, channels, tickets, decisions, nSetups, replies>>

\* The welcome messages posted so far
WelcomesPosted ==
    Cardinality(UNION {{<<c, k>> : k \in {j \in 1..Len(channels[c].messages) :
                                               channels[c].messages[j].kind = "welcome"}} :
                       c \in ChannelIds})

\* on_member_join (lines 317-348): a user who is not in the guild joins it;
\* the configuration is reloaded and, when a welcome channel is configured and
\* is there, the welcome message with the three buttons is posted in it.
MemberJoins(u) ==
    /\ u \notin members
    /\ members' = members \cup {u}
    /\ config' = load_config
    /\ LET id == load_config.welcome_channel_id
           channel == IF id # 0 THEN get_channel(id) ELSE 0
       IN  channels' = IF channel # 0
                       THEN Post(channels, channel,
                                 Message("welcome", {<<"user", u>>}, u, "", 0, "", "", 0))
                       ELSE channels
    /\ UNCHANGED <<file, memberRoles, tickets, decisions, nSetups, replies>>

----------------------------------------------------------------------------
(* The commands that show the configuration *)

\* The private reply of a command that shows configuration
NoReply ==
    [command |-> "", description |-> "", roles |-> [k \in RoleKeys |-> ""],
     welcome_channel |-> "", verification_category |-> "", log_channel |-> "",
     ticket_counter |-> 0]

\* How view_config shows a binding (lines 537-559): unset, not found, or the
\* text for what it names
Shown(id, found, text) ==
    IF id = 0 THEN "Not set" ELSE IF found = 0 THEN "Not found" ELSE text

\* test_welcome (lines 501-521): the configuration is reloaded and the welcome
\* message is shown to the one who asked.
TestWelcome ==
    /\ config' = load_config
    /\ replies' = Append(replies,
                     [NoReply EXCEPT !.command = "test-welcome",
                                     !.description = load_config.welcome_message])
    /\ UNCHANGED <<file, members, memberRoles, channels, tickets, decisions, nSetups>>

\* view_config (lines 526-572): the configuration is reloaded and its roles,
\* channels and ticket counter are shown to the one who asked.
ViewConfig ==
    LET cfg == load_config
        role(id) == Shown(id, get_role(id), "<@&" \o Str(id) \o ">")
        channel(id) == Shown(id, get_channel(id), "<#" \o Str(id) \o ">")
        category(id) == Shown(id, get_channel(id),
                              IF get_channel(id) # 0 THEN channels[id].name ELSE "")
    IN  /\ config' = cfg
        /\ replies' = Append(replies,
                [NoReply EXCEPT
                    !.command = "view-config",
                    !.roles = [k \in RoleKeys |-> role(cfg.roles[k])],
                    !.welcome_channel = channel(cfg.welcome_channel_id),
                    !.verification_category = category(cfg.verification_category_id),
                    !.log_channel = channel(cfg.log_channel_id),
                    !.ticket_counter = cfg.ticket_counter])
        /\ UNCHANGED <<file, members, memberRoles, channels, tickets, decisions, nSetups>>

----------------------------------------------------------------------------
(* The specification *)

Init ==
    /\ file \in {<<>>} \cup {<<c>> : c \in InstalledConfigs}
    /\ config = load_config
    /\ members = Users
    /\ memberRoles = [u \in Users |-> {}]
    /\ channels = [c \in ChannelIds |-> IF c <= NumStatic THEN StaticChannel(c) ELSE NoChannel]
    /\ tickets = <<>>
    /\ decisions = <<>>
    /\ nSetups = 0
    /\ replies = <<>>

\* The handlers that are suspended at an await go on
Resume ==
    \/ \E i \in 1..Len(tickets), o \in {"ok", "forbidden"} : CreateChannel(i, o)
    \/ \E i \in 1..Len(tickets) : TicketSend(i)
    \/ \E i \in 1..Len(decisions), o \in CallOutcomes : AddRoles(i, o)
    \/ \E i \in 1..Len(decisions) : ChannelSend(i)
    \/ \E i \in 1..Len(decisions), o \in CallOutcomes : LogSend(i, o)
    \/ \E i \in 1..Len(decisions), o \in {"ok", "forbidden", "not_found"} :
          DeleteChannel(i, o)

Next ==
    \/ nSetups < MaxSetups /\ \E args \in SetupRolesArgs : SetupRoles(args)
    \/ nSetups < MaxSetups /\ \E args \in SetupChannelsArgs : SetupChannels(args)
    \/ nSetups < MaxSetups /\ \E m \in WelcomeMessages : SetupMessage(m)
    \/ Len(tickets) < MaxTickets /\
          \E u \in Users, rt \in RequestTypes, canManage \in BOOLEAN :
              CreateStart(u, rt, canManage)
    \/ Len(decisions) < MaxDecisions /\
          \E c \in ChannelIds, a \in Actors, r \in Reasons : Approve(c, a, r)
    \/ Len(decisions) < MaxDecisions /\
          \E c \in ChannelIds, a \in Actors, r \in Reasons : Deny(c, a, r)
    \/ \E u \in Users : MemberLeaves(u)
    \/ WelcomesPosted < MaxJoins /\ \E u \in Users : MemberJoins(u)
    \/ Resume

Spec == Init /\ [][Next]_vars

\* Several decisions on the ticket of one requester, in an installed guild
PairInit == Init /\ file # <<>>

PairNext ==
    \/ Len(tickets) < MaxTickets /\
          \E rt \in RequestTypes : CreateStart(7, rt, TRUE)
    \/ Len(decisions) < PairDecisions /\
          \E c \in ChannelIds, a \in {"nobody", "guard"}, r \in Reasons : Approve(c, a, r)
    \/ Len(decisions) < PairDecisions /\
          \E c \in ChannelIds, a \in {"nobody", "guard"}, r \in Reasons : Deny(c, a, r)
    \/ Resume

PairSpec == PairInit /\ [][PairNext]_vars

\* Several tickets asked for at once, between setup commands and decisions
RaceNext ==
    \/ nSetups < MaxSetups /\ SetupRoles([NoRoleArgs EXCEPT !["president"] = 4])
    \/ nSetups < MaxSetups /\ SetupChannels([NoChannelArgs EXCEPT !.log_channel = LogChannel])
    \/ nSetups < MaxSetups /\ \E m \in WelcomeMessages : SetupMessage(m)
    \/ Len(tickets) < RaceTickets /\
          \E u \in Users, rt \in RequestTypes, canManage \in BOOLEAN :
              CreateStart(u, rt, canManage)
    \/ Len(decisions) < MaxDecisions /\
          \E c \in ChannelIds : Approve(c, "admin", "id verified")
    \/ Len(decisions) < MaxDecisions /\
          \E c \in ChannelIds : Deny(c, "admin", "id verified")
    \/ Resume

RaceSpec == Init /\ [][RaceNext]_vars

\* Decisions of a moderator on one requester's ticket and on the lounge, between
\* a setup command, a member leaving and joining; the sleep of a handler ends
\* and channel.delete answers.
CleanupNext ==
    \/ nSetups < MaxSetups /\
          \E args \in SetupChannelsArgs \ {NoChannelArgs} : SetupChannels(args)
    \/ Len(tickets) < MaxTickets /\ CreateStart(7, "citizen", TRUE)
    \/ Len(decisions) < PairDecisions /\
          \E c \in ChannelIds : Approve(c, "guard", "id verified")
    \/ Len(decisions) < PairDecisions /\
          \E c \in ChannelIds : Deny(c, "guard", "id verified")
    \/ MemberLeaves(42)
    \/ WelcomesPosted < MaxJoins /\ MemberJoins(42)
    \/ Resume

\* The delete step of decision i: its sleep is over and channel.delete answers
DeleteStep(i) == \E o \in {"ok", "forbidden", "not_found"} : DeleteChannel(i, o)

\* The event loop resumes each sleeping handler and the platform answers it
CleanupSpec ==
    /\ PairInit
    /\ [][CleanupNext]_vars
    /\ \A i \in 1..PairDecisions : WF_vars(DeleteStep(i))

\* Tickets of users of every kind of name, of every type, decided by an
\* administrator
RoundTripInit ==
    /\ file \in {<<>>} \cup {<<c>> : c \in InstalledConfigs}
    /\ config = load_config
    /\ members = Users \cup Guests
    /\ memberRoles = [u \in Users \cup Guests |-> {}]
    /\ channels = [c \in ChannelIds |-> IF c <= NumStatic THEN StaticChannel(c) ELSE NoChannel]
    /\ tickets = <<>>
    /\ decisions = <<>>
    /\ nSetups = 0
    /\ replies = <<>>

RoundTripNext ==
    \/ Len(tickets) < MaxTickets /\
          \E u \in Users \cup Guests, rt \in RequestTypes : CreateStart(u, rt, TRUE)
    \/ Len(decisions) < MaxDecisions /\
          \E c \in ChannelIds : Approve(c, "admin", "id verified")
    \/ Len(decisions) < MaxDecisions /\
          \E c \in ChannelIds : Deny(c, "admin", "id verified")
    \/ Resume

RoundTripSpec == RoundTripInit /\ [][RoundTripNext]_vars

\* The commands that read and write config.json, in every order: setup
\* commands, tickets asked for, decisions of an administrator, the commands
\* that show the configuration, a member leaving and joining
ConfigNext ==
    \/ nSetups < ConfigSetups /\ SetupRoles([NoRoleArgs EXCEPT !["president"] = 4])
    \/ nSetups < ConfigSetups /\
          \E args \in SetupChannelsArgs \ {NoChannelArgs} : SetupChannels(args)
    \/ nSetups < ConfigSetups /\ \E m \in WelcomeMessages : SetupMessage(m)
    \/ Len(tickets) < RaceTickets /\ CreateStart(7, "citizen", TRUE)
    \/ Len(decisions) < MaxDecisions /\
          \E c \in ChannelIds : Approve(c, "admin", "id verified")
    \/ Len(decisions) < MaxDecisions /\
          \E c \in ChannelIds : Deny(c, "admin", "id verified")
    \/ Len(replies) < MaxViews /\ ViewConfig
    \/ Len(replies) < MaxViews /\ TestWelcome
    \/ MemberLeaves(42)
    \/ WelcomesPosted < MaxJoins /\ MemberJoins(42)
    \/ Resume

ConfigSpec == Init /\ [][ConfigNext]_vars

----------------------------------------------------------------------------
(* What the claims speak of *)

\* The global is the file's contents whenever no handler is running
ConfigIsFile == config = load_config

ModeratorKeys == {"border_control", "minister_foreign_affairs", "president", "vice_president"}

\* The actor holds none of the roles the configuration binds as moderator roles
HoldsNoModeratorRole(cfg, a) ==
    \A k \in ModeratorKeys : cfg.roles[k] = 0 \/ cfg.roles[k] \notin ActorRoles(a)

\* The name begins with citizen-, foreigner- or embassy-
BeginsLikeTicket(name) ==
    \E t \in RequestTypes : Len(name) > Len(t) /\ SubSeq(name, 1, Len(t) + 1) = t \o "-"

\* The channels createTicket made
TicketChannels == {c \in ChannelIds : c > NumStatic /\ channels[c].exists}

MessagesIn(c) == {channels[c].messages[k] : k \in 1..Len(channels[c].messages)}

AllMessages == UNION {MessagesIn(c) : c \in ChannelIds}

NotificationKinds == {"approved", "denied"}
LogKinds == {"log_approved", "log_denied"}

\* What decision i posted, anywhere
PostedBy(i) == {m \in AllMessages : m.inv = i /\ m.kind \in NotificationKinds \cup LogKinds}

\* This step starts an approve or a deny
DecisionStarts == Len(decisions') = Len(decisions) + 1

Started == decisions'[Len(decisions')]

\* A decision that is over takes no further step
OverStaysOver ==
    \A i \in 1..Len(decisions) : decisions[i].pc = "done" => decisions'[i] = decisions[i]

----------------------------------------------------------------------------
(* C1 *)

C1_RejectedAtOnce ==
    (/\ DecisionStarts
     /\ BeginsLikeTicket(channels[Started.channel].name)
     /\ HoldsNoModeratorRole(load_config, Started.actor)
     /\ ~ActorIsAdministrator(Started.actor))
    => /\ Started.pc = "done"
       /\ Started.response = "unauthorized"
       /\ UNCHANGED <<memberRoles, channels, file>>

C1_NothingDone ==
    \A i \in 1..Len(decisions) :
        decisions[i].response = "unauthorized"
        => decisions[i].pc = "done" /\ PostedBy(i) = {}

\* C1: in a ticket channel, an approve or deny by an actor who holds none of
\* the configured moderator roles (an unset binding is held by nobody) and is
\* no administrator is rejected in the step that starts it, whatever the reason
\* and the ticket type: it grants no role, posts nothing in the ticket channel
\* or the log channel, never reaches the sleep before the deletion, and takes
\* no step afterwards.
C1_UnauthorizedIsRejected ==
    []C1_NothingDone /\ [][C1_RejectedAtOnce /\ OverStaysOver]_vars

\* A holder of the role that border_control would name is rejected in a ticket
\* channel while border_control is unset.
C1_Witness ==
    \E i \in 1..Len(decisions) :
        /\ decisions[i].response = "unauthorized"
        /\ decisions[i].actor = "guard"
        /\ decisions[i].channel \in TicketChannels
        /\ config.roles["border_control"] = 0

----------------------------------------------------------------------------
(* C2 *)

C2_RejectedAtOnce ==
    (DecisionStarts /\ ~BeginsLikeTicket(channels[Started.channel].name))
    => /\ Started.pc = "done"
       /\ Started.response = "not_ticket"
       /\ UNCHANGED <<file, config, members, memberRoles, channels, tickets, nSetups,
                      replies>>

C2_NothingDone ==
    \A i \in 1..Len(decisions) :
        decisions[i].response = "not_ticket"
        => decisions[i].pc = "done" /\ PostedBy(i) = {}

\* C2: an approve or deny run in a channel whose name does not begin with
\* citizen-, foreigner- or embassy- is rejected in the step that starts it,
\* whoever the actor: no role changes, no message is posted in any channel, no
\* log entry, no deletion is scheduled, the configuration stays as it is.
C2_NotATicketIsRejected ==
    []C2_NothingDone /\ [][C2_RejectedAtOnce /\ OverStaysOver]_vars

\* An administrator is rejected in the channel citizens-log.
C2_Witness ==
    \E i \in 1..Len(decisions) :
        /\ decisions[i].response = "not_ticket"
        /\ decisions[i].actor = "admin"
        /\ decisions[i].channel = LogChannel

----------------------------------------------------------------------------
(* C3 *)

\* This step starts a createTicket
TicketStarts == Len(tickets') = Len(tickets) + 1

StartedTicket == tickets'[Len(tickets')]

\* No createTicket is suspended at an await
NoTicketInFlight == \A i \in 1..Len(tickets) : tickets[i].pc = "done"

C3_IdIsNewCounter ==
    (TicketStarts /\ NoTicketInFlight)
    => /\ file' # <<>>
       /\ StartedTicket.ticket_id = file'[1].ticket_counter
       /\ StartedTicket.ticket_id = load_config.ticket_counter + 1
       /\ \A i \in 1..Len(tickets) : tickets[i].ticket_id < StartedTicket.ticket_id

\* No ticket's ID is above the persisted counter, and no other command lowers
\* the persisted counter.
C3_IdsBelowCounter ==
    \A i \in 1..Len(tickets) : tickets[i].ticket_id <= load_config.ticket_counter

\* C3: a createTicket that starts while no other createTicket is in flight,
\* whatever setup commands, approves and denies ran before it or are suspended,
\* gets as ticket ID the persisted ticket_counter as it is written by that
\* step, one above the counter persisted before, and above the ID of every
\* earlier ticket; no ticket ID ever exceeds the persisted counter.  So the IDs
\* of N such tickets are N distinct, strictly increasing integers.
C3_SequentialIds ==
    []C3_IdsBelowCounter /\ [][C3_IdIsNewCounter]_vars

\* A second ticket was opened after the first was finished, a setup command and
\* a decision on the first ticket having run: its ID is the next one.
C3_Witness ==
    /\ Len(tickets) = 2
    /\ tickets[1].response = "created"
    /\ tickets[2].response = "created"
    /\ tickets[2].ticket_id = tickets[1].ticket_id + 1
    /\ tickets[2].ticket_id = load_config.ticket_counter
    /\ nSetups = 1
    /\ \E i \in 1..Len(decisions) :
          decisions[i].channel = tickets[1].channel /\ decisions[i].response = "ack"

----------------------------------------------------------------------------
(* C4 *)

\* The part of a topic that holds the ticket ID, from part i on
RECURSIVE TopicIdFrom(_, _)
TopicIdFrom(parts, i) ==
    IF i > Len(parts) THEN 0
    ELSE IF StartsWith(parts[i], " ID: ") /\ IntOk(Strip(SubSeq(parts[i], 6, Len(parts[i]))))
         THEN IntValue(Strip(SubSeq(parts[i], 6, Len(parts[i]))))
         ELSE TopicIdFrom(parts, i + 1)

\* The ticket ID a ticket channel's topic shows
TopicTicketId(c) == TopicIdFrom(Split(channels[c].topic, "|"), 1)

\* Two createTicket handlers are suspended at once, each having created its channel
BothChannelsMade(i, j) ==
    /\ i # j
    /\ tickets[i].pc = "channel_send" /\ tickets[j].pc = "channel_send"
    /\ channels[tickets[i].channel].exists /\ channels[tickets[j].channel].exists

\* The statement as the specification makes it: two createTicket handlers that
\* run at the same time end up with two channels of the same ticket ID.
C4_OverlappingTicketsShareId ==
    \A i, j \in 1..Len(tickets) :
        BothChannelsMade(i, j)
        => TopicTicketId(tickets[i].channel) = TopicTicketId(tickets[j].channel)

\* C4: the counter is read, raised and written back in one step of the event
\* loop, so that no two createTicket invocations, however they overlap, hold
\* the same ticket ID, and no two ticket channels show the same ticket ID.
C4_NoSharedId ==
    /\ \A i, j \in 1..Len(tickets) :
          i # j => tickets[i].ticket_id # tickets[j].ticket_id
    /\ \A c, d \in TicketChannels :
          c # d => TopicTicketId(c) # TopicTicketId(d)
    /\ \A i \in 1..Len(tickets) :
          (tickets[i].channel # 0 /\ channels[tickets[i].channel].exists)
          => TopicTicketId(tickets[i].channel) = tickets[i].ticket_id

\* Two createTicket handlers of the same requester and type are suspended at
\* once, each having created its channel: the IDs differ.
C4_Witness ==
    \E i, j \in 1..Len(tickets) :
        /\ BothChannelsMade(i, j)
        /\ channels[tickets[i].channel].viewers = channels[tickets[j].channel].viewers
        /\ RequestTypeOf(channels[tickets[i].channel].name)
             = RequestTypeOf(channels[tickets[j].channel].name)
        /\ TopicTicketId(tickets[i].channel) # TopicTicketId(tickets[j].channel)

----------------------------------------------------------------------------
(* Decisions, for C5 to C10 *)

\* The actor holds a configured moderator role or is an administrator
Authorized(cfg, a) == ~HoldsNoModeratorRole(cfg, a) \/ ActorIsAdministrator(a)

\* The ticket type the channel's name begins with, "" if none
TypeOfChannel(c) ==
    IF BeginsLikeTicket(channels[c].name)
    THEN CHOOSE t \in RequestTypes :
            /\ Len(channels[c].name) > Len(t)
            /\ SubSeq(channels[c].name, 1, Len(t) + 1) = t \o "-"
    ELSE ""

\* The user the ticket channel was opened for, 0 if none
Requester(c) ==
    IF \E u \in Users \cup Guests : <<"user", u>> \in channels[c].viewers
    THEN CHOOSE u \in Users \cup Guests : <<"user", u>> \in channels[c].viewers
    ELSE 0

\* The binding that holds the role of a request type
GrantKey(t) == IF t = "citizen" THEN "belgian" ELSE "foreigner"

\* This step posts a message in channel c
NewMessageIn(c) == Len(channels'[c].messages) = Len(channels[c].messages) + 1

\* The message this step posted in channel c
Posted(c) == channels'[c].messages[Len(channels'[c].messages)]

\* Decision i takes this step
Moves(i) == i \in 1..Len(decisions) /\ decisions'[i] # decisions[i]

----------------------------------------------------------------------------
(* C5 *)

C5_GrantAttempted ==
    (/\ DecisionStarts
     /\ Started.op = "approve"
     /\ Authorized(load_config, Started.actor)
     /\ TypeOfChannel(Started.channel) \in {"citizen", "foreigner"}
     /\ Requester(Started.channel) \in members
     /\ load_config.roles[GrantKey(TypeOfChannel(Started.channel))] \in GuildRoleIds)
    => /\ Started.pc = "add_roles"
       /\ Started.member = Requester(Started.channel)
       /\ Started.role_to_give = load_config.roles[GrantKey(TypeOfChannel(Started.channel))]

C5_Granted ==
    \A i \in 1..Len(decisions) :
        (decisions[i].pc = "add_roles" /\ Moves(i))
        => \/ decisions'[i].pc = "done"
           \/ /\ decisions'[i] = [decisions[i] EXCEPT !.pc = "channel_send"]
              /\ decisions[i].role_to_give \in memberRoles'[decisions[i].member]

C5_Named ==
    \A i \in 1..Len(decisions) :
        /\ (decisions[i].op = "approve" /\ decisions[i].pc = "channel_send" /\ Moves(i)
              /\ decisions'[i].response # "raised")
           => /\ NewMessageIn(decisions[i].channel)
              /\ Posted(decisions[i].channel).kind = "approved"
              /\ Posted(decisions[i].channel).role = decisions[i].role_to_give
              /\ Posted(decisions[i].channel).mentions = {<<"user", decisions[i].member>>}
              /\ decisions'[i].pc = "log_send"
                   => /\ decisions'[i].role_to_give = decisions[i].role_to_give
                      /\ decisions'[i].member = decisions[i].member
        /\ (decisions[i].op = "approve" /\ decisions[i].pc = "log_send" /\ Moves(i)
              /\ channels' # channels)
           => /\ NewMessageIn(decisions[i].log_channel)
              /\ Posted(decisions[i].log_channel).kind = "log_approved"
              /\ Posted(decisions[i].log_channel).role = decisions[i].role_to_give
              /\ Posted(decisions[i].log_channel).user = decisions[i].member

C5_SameRole ==
    \A m1, m2 \in AllMessages :
        (m1.kind = "approved" /\ m2.kind = "log_approved" /\ m1.inv = m2.inv)
        => m1.role = m2.role /\ m1.mentions = {<<"user", m2.user>>}

\* C5: an approve by an authorized actor in a citizen (foreigner) ticket whose
\* requester is a member, the belgian (foreigner) binding naming a role of the
\* guild, asks the platform to give that role to the requester; the approval
\* goes on past the grant only with the requester holding the role; the
\* notification it posts in the ticket channel names that role and mentions
\* the requester, and so does the log entry when one is posted.
C5_ApproveGrantsRole ==
    []C5_SameRole /\ [][C5_GrantAttempted /\ C5_Granted /\ C5_Named]_vars

\* A citizen ticket is approved: the requester holds the belgian role, which
\* the notification in the ticket channel and the log entry both name.
C5_Witness ==
    \E c \in TicketChannels :
        \E m1 \in MessagesIn(c), m2 \in MessagesIn(LogChannel) :
            /\ m1.kind = "approved" /\ m2.kind = "log_approved" /\ m1.inv = m2.inv
            /\ m2.request_type = "citizen"
            /\ m1.role = load_config.roles["belgian"] /\ m2.role = m1.role
            /\ m2.user = Requester(c)
            /\ m1.role \in memberRoles[m2.user]

----------------------------------------------------------------------------
(* C6 *)

C6_NoGrantAsked ==
    (DecisionStarts /\ (Started.op = "deny" \/ TypeOfChannel(Started.channel) = "embassy"))
    => /\ Started.pc # "add_roles"
       /\ Started.role_to_give = 0
       /\ UNCHANGED memberRoles

C6_RolesChangeByGrant ==
    memberRoles' # memberRoles
    => \/ \E u \in members : members' = members \ {u}
       \/ \E i \in 1..Len(decisions) :
             /\ decisions[i].pc = "add_roles" /\ Moves(i)
             /\ memberRoles' = [memberRoles EXCEPT ![decisions[i].member] =
                                   @ \cup {decisions[i].role_to_give}]

C6_GrantOnlyForCitizenOrForeigner ==
    \A i \in 1..Len(decisions) :
        decisions[i].pc = "add_roles"
        => /\ decisions[i].op = "approve"
           /\ TypeOfChannel(decisions[i].channel) \in {"citizen", "foreigner", ""}
           /\ decisions[i].request_type \in {"citizen", "foreigner"}

C6_NoRoleNamed ==
    \A m \in AllMessages :
        (\/ m.kind \in {"denied", "log_denied"}
         \/ m.kind \in {"approved", "log_approved"} /\ m.request_type = "embassy")
        => m.role = 0

\* C6: an approve in an embassy ticket and a deny in any ticket ask for no
\* grant, whatever the bindings; a member's roles change only when the member
\* leaves or when an approve of a citizen or foreigner ticket is granted its
\* role; the notification and the log entry of an embassy approval and of a
\* denial name no role.
C6_NoRoleChange ==
    /\ [](C6_GrantOnlyForCitizenOrForeigner /\ C6_NoRoleNamed)
    /\ [][C6_NoGrantAsked /\ C6_RolesChangeByGrant]_vars

\* An embassy ticket was approved and logged with every grantable binding
\* set: the entry names no role and the requester holds none.
C6_Witness ==
    \E m \in MessagesIn(LogChannel) :
        /\ m.kind = "log_approved" /\ m.request_type = "embassy"
        /\ m.role = 0
        /\ m.user \in members /\ memberRoles[m.user] = {}
        /\ \A k \in {"belgian", "foreigner", "president"} :
              load_config.roles[k] \in GuildRoleIds

----------------------------------------------------------------------------
(* C7 *)

\* No message in a ticket channel holds a reason
C7_NoReasonInTicket ==
    \A c \in TicketChannels : \A m \in MessagesIn(c) : m.reason = ""

\* Decisions of one kind in one ticket post the same notification there,
\* whatever their reasons
C7_SameWhateverReason ==
    \A c \in TicketChannels :
        \A m1, m2 \in MessagesIn(c) :
            (m1.kind \in NotificationKinds /\ m1.kind = m2.kind)
            => [m1 EXCEPT !.inv = 0] = [m2 EXCEPT !.inv = 0]

\* C7: the reason of an approve or a deny is in no message of a ticket
\* channel; two approves (or two denies) of the same actor in the same ticket
\* that differ in the reason post the same message in the ticket channel; the
\* reason is in the log entry.
C7_ReasonKeptFromRequester == C7_NoReasonInTicket /\ C7_SameWhateverReason

\* Two approves of one ticket by the same moderator, with different reasons:
\* the log entries differ in the reason, the two notifications in the ticket
\* channel are the same.
C7_Witness ==
    \E c \in TicketChannels :
        \E n1, n2 \in MessagesIn(c), l1, l2 \in MessagesIn(LogChannel) :
            /\ n1.kind = "approved" /\ n2.kind = "approved" /\ n1.inv # n2.inv
            /\ l1.inv = n1.inv /\ l2.inv = n2.inv
            /\ l1.reason # l2.reason
            /\ [l1 EXCEPT !.reason = "", !.inv = 0] = [l2 EXCEPT !.reason = "", !.inv = 0]
            /\ [n1 EXCEPT !.inv = 0] = [n2 EXCEPT !.inv = 0]

----------------------------------------------------------------------------
(* C8 *)

\* Decision i has an entry in some channel once this step is taken
LoggedAfter(i) ==
    \E c \in ChannelIds : \E k \in 1..Len(channels'[c].messages) :
        channels'[c].messages[k].inv = i /\ channels'[c].messages[k].kind \in LogKinds

\* Decision i has an entry with this reason in some channel once this step is taken
LoggedWithReasonAfter(i, reason) ==
    \E c \in ChannelIds : \E k \in 1..Len(channels'[c].messages) :
        /\ channels'[c].messages[k].inv = i
        /\ channels'[c].messages[k].kind \in LogKinds
        /\ channels'[c].messages[k].reason = reason

\* Decision i, its notification posted, gets to its acknowledgment in this step
Acknowledged(i) ==
    /\ decisions[i].pc \in {"channel_send", "log_send"}
    /\ decisions'[i].pc = "sleep"

C8_LoggedWheneverConfigured ==
    \A i \in 1..Len(decisions) :
        (Acknowledged(i) /\ config.log_channel_id # 0)
        => LoggedWithReasonAfter(i, decisions[i].reason)

\* The statement as the specification makes it: with a log channel configured,
\* a decision that posted its notification has a log entry with its reason
\* when it is acknowledged.
C8_AlwaysLoggedWhenConfigured == [][C8_LoggedWheneverConfigured]_vars

\* The configured log channel is there
LogChannelResolves(cfg) ==
    cfg.log_channel_id \in ChannelIds /\ channels[cfg.log_channel_id].exists

C8_LogAttempted ==
    \A i \in 1..Len(decisions) :
        (decisions[i].pc = "channel_send" /\ Moves(i) /\ decisions'[i].response # "raised"
           /\ LogChannelResolves(config))
        => decisions'[i] = [decisions[i] EXCEPT !.pc = "log_send",
                                                !.log_channel = config.log_channel_id]

C8_EntryHoldsReason ==
    \A i \in 1..Len(decisions) :
        (decisions[i].pc = "log_send" /\ Moves(i))
        => /\ decisions'[i].pc = "sleep"
           /\ IF decisions'[i].log_posted
              THEN /\ channels' = Post(channels, decisions[i].log_channel,
                                       Posted(decisions[i].log_channel))
                   /\ Posted(decisions[i].log_channel).kind =
                         (IF decisions[i].op = "approve" THEN "log_approved" ELSE "log_denied")
                   /\ Posted(decisions[i].log_channel).inv = i
                   /\ Posted(decisions[i].log_channel).reason = decisions[i].reason
                   /\ Posted(decisions[i].log_channel).actor = decisions[i].actor
              ELSE /\ UNCHANGED channels
                   /\ decisions'[i].warning

C8_EntriesHoldReasons ==
    /\ \A m \in AllMessages : m.kind \in LogKinds => m.reason \in Reasons
    /\ \A i \in 1..Len(decisions) :
          decisions[i].log_posted <=> \E m \in AllMessages : m.inv = i /\ m.kind \in LogKinds

\* C8: a decision that posted its notification while the configured log
\* channel is there asks the platform to post a log entry in it; when the
\* platform takes the post, the entry holds the reason and the actor of that
\* decision; when it refuses, nothing is posted and the moderator is warned.
\* Every log entry holds the reason of its decision.
C8_LoggedWhenResolvableAndAccepted ==
    []C8_EntriesHoldReasons /\ [][C8_LogAttempted /\ C8_EntryHoldsReason]_vars

\* A denial with a reason given is logged with that reason.
C8_Witness ==
    \E i \in 1..Len(decisions) : \E m \in MessagesIn(LogChannel) :
        /\ decisions[i].op = "deny" /\ decisions[i].log_posted
        /\ m.inv = i /\ m.kind = "log_denied" /\ m.reason = "id verified"
        /\ m.actor = decisions[i].actor

----------------------------------------------------------------------------
(* C9 *)

C9_GoesOn ==
    \A i \in 1..Len(decisions) :
        /\ (decisions[i].pc = "channel_send" /\ Moves(i) /\ decisions'[i].response # "raised")
           => /\ NewMessageIn(decisions[i].channel)
              /\ Posted(decisions[i].channel).inv = i
              /\ Posted(decisions[i].channel).kind \in NotificationKinds
              /\ decisions'[i].pc \in {"log_send", "sleep"}
              /\ config.log_channel_id = 0
                   => decisions'[i].pc = "sleep" /\ ~decisions'[i].warning
        /\ (decisions[i].pc = "log_send" /\ Moves(i)) => decisions'[i].pc = "sleep"
        /\ (decisions[i].pc = "sleep" /\ Moves(i))
           => /\ decisions'[i] = [decisions[i] EXCEPT !.pc = "done"]
              /\ \/ UNCHANGED channels
                 \/ channels' = [channels EXCEPT ![decisions[i].channel] = NoChannel]

C9_WarningIffUnlogged ==
    \A i \in 1..Len(decisions) :
        (decisions[i].pc # "sleep" /\ decisions'[i].pc = "sleep")
        => /\ Acknowledged(i)
           /\ decisions'[i].response = "ack"
           /\ decisions'[i].warning <=> (config.log_channel_id # 0 /\ ~LoggedAfter(i))

C9_WarnedOnlyAcknowledged ==
    \A i \in 1..Len(decisions) :
        /\ decisions[i].warning => decisions[i].response = "ack"
        /\ decisions[i].response = "ack" <=>
              (decisions[i].pc = "sleep" \/ (decisions[i].pc = "done" /\
                   decisions[i].response \notin {"not_ticket", "unauthorized", "no_user",
                       "member_left", "role_forbidden", "role_http_error", "raised"}))

\* C9: a decision that posted its notification is acknowledged and goes on to
\* the sleep and the deletion, whether no log channel is configured, the
\* configured one is not there, or the platform refuses or fails the post; the
\* acknowledgment holds the warning exactly when a log channel is configured
\* and the decision has no log entry; with none configured it holds no warning.
C9_LogFailureDoesNotBlock ==
    []C9_WarnedOnlyAcknowledged /\ [][C9_GoesOn /\ C9_WarningIffUnlogged]_vars

\* A decision whose log entry the platform refused, the log channel being
\* there: the moderator was warned and the ticket channel has been deleted.
C9_Witness ==
    \E i \in 1..Len(decisions) :
        /\ decisions[i].pc = "done" /\ decisions[i].response = "ack"
        /\ decisions[i].warning
        /\ LogChannelResolves(load_config)
        /\ \A m \in AllMessages : m.inv # i \/ m.kind \notin LogKinds
        /\ ~channels[decisions[i].channel].exists

----------------------------------------------------------------------------
(* C10 *)

\* The platform refuses or fails the grant decision i waits for
GrantRefused(i) == \E o \in CallOutcomes \ {"ok"} : AddRoles(i, o)

C10_Aborts ==
    \A i \in 1..Len(decisions) :
        /\ GrantRefused(i)
           => /\ decisions'[i].pc = "done"
              /\ decisions'[i].response \in {"role_forbidden", "role_http_error"}
              /\ UNCHANGED <<memberRoles, channels>>
        /\ (decisions[i].pc = "add_roles" /\ Moves(i) /\ decisions'[i].pc # "done")
           => decisions[i].role_to_give \in memberRoles'[decisions[i].member]

C10_NothingPosted ==
    \A i \in 1..Len(decisions) :
        /\ decisions[i].response \in {"role_forbidden", "role_http_error"}
           => decisions[i].pc = "done" /\ PostedBy(i) = {}
        /\ decisions[i].pc = "add_roles" => PostedBy(i) = {}

\* C10: when the platform refuses or fails the grant of an approve, that step
\* ends the approval with a private error: it changes no roles and no channel,
\* and the approval, having posted nothing before, takes no further step, so
\* that it posts no notification and no log entry and never gets to the sleep
\* and the deletion.
C10_RefusedGrantAborts ==
    []C10_NothingPosted /\ [][C10_Aborts /\ OverStaysOver]_vars

\* The grant of an approval was refused: the ticket channel is there, without
\* a notification, and the requester holds no role.
C10_Witness ==
    \E i \in 1..Len(decisions) :
        /\ decisions[i].response = "role_forbidden"
        /\ decisions[i].channel \in TicketChannels
        /\ \A m \in MessagesIn(decisions[i].channel) : m.kind = "ticket"
        /\ Requester(decisions[i].channel) \in members
        /\ memberRoles[Requester(decisions[i].channel)] = {}

----------------------------------------------------------------------------
(* C11 *)

\* The requester a ticket channel's topic names has left the guild
RequesterLeft(c) == ParseUserId(channels[c].topic) \in Users \ members

C11_MemberNotFound ==
    (/\ DecisionStarts
     /\ Started.op = "approve"
     /\ BeginsLikeTicket(channels[Started.channel].name)
     /\ Authorized(load_config, Started.actor)
     /\ RequesterLeft(Started.channel))
    => /\ Started.pc = "done"
       /\ Started.response = "member_left"
       /\ UNCHANGED <<memberRoles, channels, file>>

C11_NothingDone ==
    \A i \in 1..Len(decisions) :
        decisions[i].response = "member_left"
        => decisions[i].pc = "done" /\ decisions[i].op = "approve" /\ PostedBy(i) = {}

\* C11: an approve by an authorized actor in a ticket whose requester has left
\* the guild ends in the step that starts it with the member-not-found reply:
\* no roles change, no message is posted in any channel, the channel stays as
\* it is, and the approve takes no further step (no sleep, no deletion).
C11_ApproveOfLeaverFails ==
    []C11_NothingDone /\ [][C11_MemberNotFound /\ OverStaysOver]_vars

\* An approve was refused because the requester left; the ticket is open,
\* with the ticket message only.
C11_Witness ==
    \E i \in 1..Len(decisions) :
        /\ decisions[i].response = "member_left"
        /\ decisions[i].channel \in TicketChannels
        /\ RequesterLeft(decisions[i].channel)
        /\ \A m \in MessagesIn(decisions[i].channel) : m.kind = "ticket"
        /\ \A u \in Users : memberRoles[u] = {}

----------------------------------------------------------------------------
(* C12 *)

C12_DenyGoesOn ==
    (/\ DecisionStarts
     /\ Started.op = "deny"
     /\ BeginsLikeTicket(channels[Started.channel].name)
     /\ Authorized(load_config, Started.actor)
     /\ RequesterLeft(Started.channel))
    => /\ Started.pc = "channel_send"
       /\ Started.member = 0

C12_UnknownNamed ==
    \A i \in 1..Len(decisions) :
        (decisions[i].op = "deny" /\ decisions[i].member = 0 /\ Moves(i))
        => /\ decisions[i].pc = "channel_send" /\ decisions'[i].response # "raised"
              => /\ NewMessageIn(decisions[i].channel)
                 /\ Posted(decisions[i].channel).kind = "denied"
                 /\ Posted(decisions[i].channel).mentions = {}
                 /\ decisions'[i].pc \in {"log_send", "sleep"}
           /\ (decisions[i].pc = "log_send" /\ channels' # channels)
              => /\ Posted(decisions[i].log_channel).kind = "log_denied"
                 /\ Posted(decisions[i].log_channel).user = 0
           /\ decisions[i].pc = "log_send" => decisions'[i].pc = "sleep"

\* The denial of a requester who cannot be found mentions nobody
C12_NobodyMentioned ==
    \A n, l \in AllMessages :
        (n.kind = "denied" /\ l.kind = "log_denied" /\ n.inv = l.inv /\ l.user = 0)
        => n.mentions = {}

\* C12: a deny by an authorized actor in a ticket whose requester has left the
\* guild goes on without a member: the notification it posts mentions nobody,
\* the log entry, when one is posted, names no user (it reads Unknown), and the
\* deny is acknowledged and gets to the sleep before the deletion.
C12_DenyOfLeaverCompletes ==
    []C12_NobodyMentioned /\ [][C12_DenyGoesOn /\ C12_UnknownNamed]_vars

\* The ticket of a requester who left was denied, logged without a user, and
\* the channel deleted.
C12_Witness ==
    \E i \in 1..Len(decisions) : \E l \in MessagesIn(LogChannel) :
        /\ decisions[i].op = "deny" /\ decisions[i].pc = "done"
        /\ decisions[i].response = "ack"
        /\ decisions[i].channel > NumStatic
        /\ ~channels[decisions[i].channel].exists
        /\ l.inv = i /\ l.kind = "log_denied" /\ l.user = 0
        /\ members # Users

----------------------------------------------------------------------------
(* C13 *)

\* The topic of the channel gives no requester
NoRequesterInTopic(c) == ParseUserId(channels[c].topic) = 0

C13_AbortedAtOnce ==
    (/\ DecisionStarts
     /\ BeginsLikeTicket(channels[Started.channel].name)
     /\ Authorized(load_config, Started.actor)
     /\ NoRequesterInTopic(Started.channel))
    => /\ Started.pc = "done"
       /\ Started.response = "no_user"
       /\ UNCHANGED channels

\* C13: an approve and a deny by an authorized actor in a channel with a
\* ticket name whose topic gives no user id are both ended, in the step that
\* starts them, with the reply that the requester cannot be found: nothing is
\* posted and no deletion is scheduled.
C13_UnresolvableRequesterAborts == [][C13_AbortedAtOnce]_vars

----------------------------------------------------------------------------
(* C14 *)

\* Channel c holds the notification of a decision
Decided(c) == \E m \in MessagesIn(c) : m.kind \in NotificationKinds

C14_DeletedAfterDecision ==
    \A c \in ChannelIds :
        (channels[c].exists /\ ~channels'[c].exists)
        => \E i \in 1..Len(decisions) :
              /\ decisions[i].channel = c
              /\ decisions[i].pc = "sleep" /\ decisions[i].response = "ack"
              /\ decisions'[i].pc = "done"
              /\ \E m \in MessagesIn(c) : m.inv = i /\ m.kind \in NotificationKinds

C14_NoWayBack ==
    \A c \in ChannelIds :
        /\ (channels[c].exists /\ channels'[c].exists)
           => /\ Len(channels'[c].messages) >= Len(channels[c].messages)
              /\ SubSeq(channels'[c].messages, 1, Len(channels[c].messages))
                    = channels[c].messages
        /\ (~channels[c].exists /\ channels'[c].exists)
           => /\ channels'[c].messages = <<>>
              /\ \E i \in 1..Len(tickets) :
                    /\ c = TicketChannelId(i)
                    /\ tickets[i].pc = "create_text_channel"
                    /\ tickets'[i].pc = "channel_send"

\* A createTicket makes its channel once; only a channel that is there is decided
C14_MadeOnce ==
    /\ \A i \in 1..Len(tickets) :
          tickets[i].pc = "create_text_channel"
          => ~channels[TicketChannelId(i)].exists
    /\ \A c \in ChannelIds : ~channels[c].exists => ~Decided(c)
    /\ \A i \in 1..Len(decisions) :
          decisions[i].pc = "sleep" => decisions[i].response = "ack"

\* C14: a channel goes from open (no decision notification) to decided (one
\* posted) to deleted, and not back: the bot deletes a channel only in the
\* delete step of an approve or deny that posted its notification there and
\* was acknowledged; so a channel on which every approve and deny was rejected
\* or aborted is not deleted; a channel that is there keeps its messages, so
\* a decided channel is not open again; a channel comes into being only once,
\* empty, by the createTicket it belongs to.
C14_Lifecycle ==
    []C14_MadeOnce /\ [][C14_DeletedAfterDecision /\ C14_NoWayBack /\ OverStaysOver]_vars

\* A ticket was created, approved and, the sleep over, deleted.
C14_Witness ==
    /\ Len(tickets) >= 1 /\ tickets[1].response = "created"
    /\ ~channels[TicketChannelId(1)].exists
    /\ \E i \in 1..Len(decisions) :
          /\ decisions[i].channel = TicketChannelId(1)
          /\ decisions[i].op = "approve"
          /\ decisions[i].pc = "done" /\ decisions[i].response = "ack"

----------------------------------------------------------------------------
(* C15 *)

\* Decision i was acknowledged and sleeps
Sleeping(i) == i <= Len(decisions) /\ decisions[i].pc = "sleep"

\* Decision i made its delete attempt and ended without error
Ended(i) ==
    i <= Len(decisions) /\ decisions[i].pc = "done" /\ decisions[i].response = "ack"

C15_OneAttempt ==
    \A i \in 1..Len(decisions) :
        /\ DeleteChannel(i, "ok")
           => ~channels'[decisions[i].channel].exists /\ Ended(i)'
        /\ (DeleteChannel(i, "forbidden") \/ DeleteChannel(i, "not_found"))
           => UNCHANGED channels /\ Ended(i)'
        /\ (decisions[i].pc = "sleep" /\ Moves(i)) => DeleteStep(i)
        /\ (decisions[i].pc # "sleep" /\ channels[decisions[i].channel].exists
              /\ ~channels'[decisions[i].channel].exists)
           => ~Moves(i)

\* C15: a decision that was acknowledged makes, as long as its handler is
\* resumed, its delete attempt and ends; it makes one attempt only, since it
\* leaves the sleep by that attempt and takes no step afterwards.  An attempt
\* the platform accepts deletes the channel; one it answers with not-found or
\* forbidden changes no channel and ends the handler as well.
C15_DeleteAttemptFollows ==
    /\ \A i \in 1..PairDecisions : Sleeping(i) ~> Ended(i)
    /\ [][C15_OneAttempt /\ OverStaysOver]_vars

\* A decision whose delete attempt the platform refused has ended; the
\* channel is there, decided.
C15_Witness ==
    \E i \in 1..Len(decisions) :
        /\ Ended(i)
        /\ channels[decisions[i].channel].exists
        /\ \E m \in MessagesIn(decisions[i].channel) :
              m.inv = i /\ m.kind \in NotificationKinds

----------------------------------------------------------------------------
(* C16 *)

\* The delete attempt of every sleeping decision can be made
C16_AttemptNeverDisabled ==
    \A i \in 1..Len(decisions) : decisions[i].pc = "sleep" => ENABLED DeleteStep(i)

C16_NotCancelled ==
    \A i \in 1..Len(decisions) :
        /\ (decisions[i].pc = "sleep" /\ ~DeleteStep(i))
           => decisions'[i] = decisions[i]
        /\ (decisions[i].pc = "sleep" /\ Moves(i) /\ ~channels[decisions[i].channel].exists)
           => UNCHANGED channels /\ Ended(i)'

\* Two decisions on one channel sleep at once
BothSleeping(i, j) ==
    /\ i # j /\ Sleeping(i) /\ Sleeping(j)
    /\ decisions[i].channel = decisions[j].channel

\* C16: while a decision sleeps, its delete attempt stays possible and no
\* step of another handler (a second approve or deny on the channel, a setup
\* command, a createTicket, a member joining or leaving) changes it; two
\* decisions that sleep on the same channel both make their attempt and end;
\* the attempt on a channel that is gone changes nothing.
C16_DeletionNotCancelled ==
    /\ []C16_AttemptNeverDisabled
    /\ [][C16_NotCancelled]_vars
    /\ \A i, j \in 1..PairDecisions : BothSleeping(i, j) ~> (Ended(i) /\ Ended(j))

\* Two decisions were made on one ticket; a setup command and a member's
\* leaving came after the first was scheduled; both have ended and the
\* channel is gone.
C16_Witness ==
    /\ Len(decisions) = 2
    /\ Ended(1) /\ Ended(2)
    /\ decisions[1].channel = decisions[2].channel
    /\ decisions[1].channel > NumStatic
    /\ ~channels[decisions[1].channel].exists
    /\ nSetups = 1 /\ members # Users

----------------------------------------------------------------------------
(* C17 *)

\* The ticket IDs the round trip is computed for: of one digit and of two
RoundTripIds == {1, 10}

\* What approve and deny read from the name and the topic createTicket makes
C17_FunctionsRoundTrip ==
    \A u \in Users \cup Guests, rt \in RequestTypes, id \in RoundTripIds :
        /\ RequestTypeOf(TicketChannelName(rt, id, u)) = rt
        /\ ParseUserId(TicketTopic(rt, id, u)) = u

\* The createTicket invocation that made channel c
MakerOf(c) == CHOOSE i \in 1..Len(tickets) : TicketChannelId(i) = c

\* The type createTicket used for channel c: the one of the ticket message,
\* or of the handler that has not posted it yet
TypeUsedFor(c) ==
    IF tickets[MakerOf(c)].pc = "channel_send"
    THEN tickets[MakerOf(c)].request_type
    ELSE (CHOOSE m \in MessagesIn(c) : m.kind = "ticket").request_type

\* The locals of decision i are alive
InFlight(i) == decisions[i].pc \in {"add_roles", "channel_send", "log_send"}

C17_DecisionReadsWhatWasWritten ==
    \A i \in 1..Len(decisions) :
        (InFlight(i) /\ decisions[i].channel \in TicketChannels)
        => /\ decisions[i].user_id = Requester(decisions[i].channel)
           /\ decisions[i].request_type = TypeUsedFor(decisions[i].channel)

\* C17: for every request type, every user and every name (with upper case,
\* spaces, '-', '|', ':', the text 'User ID:', or longer than the 100
\* characters a channel name is cut to), the type approve and deny take from
\* the channel name and the user id they parse from the topic are the type
\* and the user createTicket was run with.
C17_RoundTrip == C17_FunctionsRoundTrip /\ C17_DecisionReadsWhatWasWritten

\* A decision is in flight on the embassy ticket of the user of the long name:
\* the channel name was cut at 100 characters, and the decision has the type
\* and the user.
C17_Witness ==
    \E i \in 1..Len(decisions) :
        /\ InFlight(i) /\ decisions[i].channel \in TicketChannels
        /\ Len(channels[decisions[i].channel].name) = ChannelNameLimit
        /\ Len(UserName(decisions[i].user_id)) > ChannelNameLimit
        /\ decisions[i].request_type = "embassy"
        /\ Requester(decisions[i].channel) = decisions[i].user_id

----------------------------------------------------------------------------
(* C18 *)

\* The bindings whose roles are told of a request of type rt
NotifiedKeys(rt) ==
    IF rt \in {"citizen", "foreigner"} THEN {"border_control"}
    ELSE {"minister_foreign_affairs", "president", "vice_president"}

\* The roles of those bindings that are set and exist in the guild
NotifiedRoles(cfg, rt) == {cfg.roles[k] : k \in NotifiedKeys(rt)} \cap GuildRoleIds

\* Who may view the ticket of user u and type rt under configuration cfg
MayView(cfg, u, rt) ==
    {<<"user", u>>, <<"bot", 0>>} \cup {<<"role", r>> : r \in NotifiedRoles(cfg, rt)}

C18_ViewersChosen ==
    (TicketStarts /\ StartedTicket.pc # "done")
    => StartedTicket.viewers =
          MayView(load_config, StartedTicket.user, StartedTicket.request_type)

C18_ViewersGiven ==
    \A c \in ChannelIds :
        /\ (~channels[c].exists /\ channels'[c].exists)
           => /\ tickets[MakerOf(c)].pc = "create_text_channel"
              /\ channels'[c].viewers = tickets[MakerOf(c)].viewers
        /\ (channels[c].exists /\ channels'[c].exists)
           => channels'[c].viewers = channels[c].viewers

\* A ticket channel is seen by its requester, the bot, and roles of the guild
\* that a moderator binding of some configuration could name; by nobody else
C18_NobodyElse ==
    \A c \in TicketChannels :
        /\ <<"bot", 0>> \in channels[c].viewers
        /\ \E u \in Users \cup Guests :
              {v \in channels[c].viewers : v[1] = "user"} = {<<"user", u>>}
        /\ \A v \in channels[c].viewers :
              /\ v[1] \in {"user", "bot", "role"}
              /\ v[1] = "role" => v[2] \in GuildRoleIds
        /\ \A i \in 1..Len(tickets) :
              (tickets[i].pc = "channel_send" /\ tickets[i].channel = c)
              => /\ <<"user", tickets[i].user>> \in channels[c].viewers
                 /\ \A v \in channels[c].viewers :
                       v[1] = "role"
                       => \E j \in 1..Len(tickets[i].role_ids) : tickets[i].role_ids[j] = v[2]

\* C18: a createTicket builds the channel's view permissions as: denied to
\* everyone, granted to the requester, the bot, and those roles bound, in the
\* configuration it loaded, as notified roles of the request type
\* (border_control for citizen and foreigner; minister_foreign_affairs,
\* president and vice_president for embassy) that are set and exist; bindings
\* unset or of deleted roles are left out; the channel is created with these
\* permissions and keeps them.
C18_ViewAccess ==
    []C18_NobodyElse /\ [][C18_ViewersChosen /\ C18_ViewersGiven]_vars

\* An embassy ticket where president is bound to a role, vice_president to a
\* deleted role and minister_foreign_affairs is unset: the channel is seen by
\* the requester, the bot and the president role.
C18_Witness ==
    \E c \in TicketChannels :
        /\ RequestTypeOf(channels[c].name) = "embassy"
        /\ load_config.roles["president"] = 4
        /\ load_config.roles["vice_president"] \in StaleRoleIds
        /\ load_config.roles["minister_foreign_affairs"] = 0
        /\ load_config.roles["border_control"] = 3
        /\ nSetups = 0
        /\ channels[c].viewers = {<<"user", Requester(c)>>, <<"bot", 0>>, <<"role", 4>>}

----------------------------------------------------------------------------
(* C19 *)

\* The configured verification category is there
CategoryResolves(cfg) ==
    /\ cfg.verification_category_id \in ChannelIds
    /\ channels[cfg.verification_category_id].exists

\* A createTicket starts while the bot may not manage channels in the category
StartsWithoutPermission == \E u \in Users \cup Guests, rt \in RequestTypes : CreateStart(u, rt, FALSE)

\* A createTicket that is over takes no further step
TicketOverStaysOver ==
    \A i \in 1..Len(tickets) : tickets[i].pc = "done" => tickets'[i] = tickets[i]

C19_RefusedBeforeCreation ==
    (StartsWithoutPermission /\ CategoryResolves(load_config))
    => /\ StartedTicket.pc = "done"
       /\ StartedTicket.response = "no_category_permission"
       /\ StartedTicket.channel = 0
       /\ UNCHANGED channels

C19_CreatedOutsideCategory ==
    /\ (TicketStarts /\ load_config.verification_category_id = 0)
       => /\ StartedTicket.pc = "create_text_channel"
          /\ StartedTicket.category = 0
    /\ \A c \in ChannelIds :
          (~channels[c].exists /\ channels'[c].exists)
          => /\ channels'[c].category = tickets[MakerOf(c)].category
             /\ tickets'[MakerOf(c)].pc = "channel_send"

C19_NothingCreated ==
    \A i \in 1..Len(tickets) :
        tickets[i].response = "no_category_permission"
        => /\ tickets[i].pc = "done" /\ tickets[i].channel = 0
           /\ ~channels[TicketChannelId(i)].exists
           /\ \A m \in AllMessages : ~(m.kind = "ticket" /\ m.inv = i)

\* C19: a createTicket that finds the configured category and lacks the
\* permission to manage channels in it ends in the step that starts it, with
\* the private error: it asks for no channel, none is made, nothing is
\* posted, and it takes no further step.  With no category configured the
\* createTicket asks for a channel outside any category, and the channel the
\* platform makes for it is in none.
C19_CategoryPermission ==
    /\ []C19_NothingCreated
    /\ [][C19_RefusedBeforeCreation /\ C19_CreatedOutsideCategory /\ TicketOverStaysOver]_vars

\* A createTicket was refused for want of the permission: there is no ticket
\* channel, and its ID is the persisted counter.
C19_Witness ==
    /\ Len(tickets) = 1
    /\ tickets[1].response = "no_category_permission"
    /\ CategoryResolves(load_config)
    /\ TicketChannels = {}
    /\ load_config.ticket_counter = tickets[1].ticket_id

----------------------------------------------------------------------------
(* C20 *)

\* What config.json holds: its contents, or the defaults when there is none
Persisted(f) == IF f # <<>> THEN f[1] ELSE DEFAULT_CONFIG

\* A handler starts in this step
HandlerStarts ==
    \/ DecisionStarts
    \/ TicketStarts
    \/ nSetups' # nSetups
    \/ members' # members /\ members \subseteq members'

\* The channel a binding names, 0 when it is unset or the channel is gone
Resolved(id) == IF id \in ChannelIds /\ channels[id].exists THEN id ELSE 0

C20_StartsFromFile ==
    /\ HandlerStarts => config' = Persisted(file')
    /\ (DecisionStarts /\ Started.pc = "add_roles")
       => Started.role_to_give =
             Persisted(file).roles[GrantKey(TypeOfChannel(Started.channel))]
    /\ (DecisionStarts /\ Started.response = "unauthorized")
       => ~Authorized(Persisted(file), Started.actor)
    /\ (TicketStarts /\ StartedTicket.pc # "done")
       => /\ StartedTicket.viewers =
                MayView(Persisted(file), StartedTicket.user, StartedTicket.request_type)
          /\ StartedTicket.category = Resolved(Persisted(file).verification_category_id)
          /\ StartedTicket.ticket_id = Persisted(file).ticket_counter + 1
    /\ (members' # members /\ members \subseteq members'
          /\ Resolved(Persisted(file).welcome_channel_id) # 0)
       => /\ NewMessageIn(Persisted(file).welcome_channel_id)
          /\ Posted(Persisted(file).welcome_channel_id).kind = "welcome"

C20_LogsWhereConfigured ==
    \A i \in 1..Len(decisions) :
        (decisions[i].pc = "channel_send" /\ Moves(i) /\ decisions'[i].response # "raised")
        => IF Resolved(Persisted(file).log_channel_id) # 0
           THEN /\ decisions'[i].pc = "log_send"
                /\ decisions'[i].log_channel = Persisted(file).log_channel_id
           ELSE /\ decisions'[i].pc = "sleep"
                /\ decisions'[i].warning <=> Persisted(file).log_channel_id # 0

\* The configuration in memory is what the file holds
C20_MemoryIsFile == config = Persisted(file)

\* C20: every handler starts from what config.json holds at that moment (the
\* defaults when there is no file): the bindings an approve or deny authorizes
\* and grants by, the roles, category and counter a createTicket uses, the
\* welcome channel of a member join, and the log channel a decision logs to
\* are those persisted by the setup commands and createTickets that ran
\* before; the configuration in memory never differs from the file.
C20_ConfigurationIsFresh ==
    []C20_MemoryIsFile /\ [][C20_StartsFromFile /\ C20_LogsWhereConfigured]_vars

\* The bot started without a file; setup-channel then set the log channel,
\* and a decision made afterwards is logged there.
C20_Witness ==
    /\ file # <<>>
    /\ file[1].roles["foreigner"] = 0
    /\ file[1].log_channel_id = LogChannel
    /\ nSetups = 1
    /\ \E m \in MessagesIn(LogChannel) : m.kind \in LogKinds

----------------------------------------------------------------------------
(* C21 *)

\* Channel c holds the notification of a decision other than decision i
DecidedByAnother(c, i) ==
    \E m \in MessagesIn(c) : m.kind \in NotificationKinds /\ m.inv # i

\* The notifications in channel c
NotificationsIn(c) ==
    {k \in 1..Len(channels[c].messages) : channels[c].messages[k].kind \in NotificationKinds}

\* The log entries in channel c
LogEntriesIn(c) ==
    {k \in 1..Len(channels[c].messages) : channels[c].messages[k].kind \in LogKinds}

\* An approve or deny of an authorized actor on a decided channel is taken as
\* on an open one: it gets to its first network call
C21_AcceptedAgain ==
    (/\ DecisionStarts
     /\ Decided(Started.channel)
     /\ Authorized(load_config, Started.actor)
     /\ Started.op = "approve" => ParseUserId(channels[Started.channel].topic) \in members)
    => /\ Started.pc \in {"add_roles", "channel_send"}
       /\ Started.response = "none"

\* On a decided channel that is still there, the decision posts its own
\* notification, then goes to the log channel if one resolves
C21_NotifiesAgain ==
    \A i \in 1..Len(decisions) :
        LET c == decisions[i].channel
        IN  (/\ decisions[i].pc = "channel_send" /\ Moves(i)
             /\ channels[c].exists /\ DecidedByAnother(c, i))
            => /\ NewMessageIn(c)
               /\ Posted(c).inv = i
               /\ Posted(c).kind = IF decisions[i].op = "approve" THEN "approved" ELSE "denied"
               /\ Cardinality(NotificationsIn(c)') >= 2
               /\ IF LogChannelResolves(config)
                  THEN decisions'[i].pc = "log_send"
                  ELSE decisions'[i].pc = "sleep" /\ decisions'[i].response = "ack"

\* Its log entry is posted if the platform takes it, and it is acknowledged
\* and sleeps until its own delete attempt
C21_LogsAndSchedulesAgain ==
    \A i \in 1..Len(decisions) :
        LET c == decisions[i].channel
        IN  /\ (decisions[i].pc = "log_send" /\ DecidedByAnother(c, i) /\ LogSend(i, "ok"))
               => /\ NewMessageIn(decisions[i].log_channel)
                  /\ Posted(decisions[i].log_channel).inv = i
                  /\ Posted(decisions[i].log_channel).kind \in LogKinds
            /\ (decisions[i].pc = "log_send" /\ DecidedByAnother(c, i) /\ Moves(i))
               => decisions'[i].pc = "sleep" /\ decisions'[i].response = "ack"
            /\ (decisions[i].pc = "sleep" /\ DecidedByAnother(c, i) /\ Moves(i))
               => DeleteStep(i) /\ Ended(i)'

\* Each decision that sleeps on a channel another decided can make its attempt
C21_AttemptScheduled ==
    \A i \in 1..Len(decisions) :
        (Sleeping(i) /\ DecidedByAnother(decisions[i].channel, i)) => ENABLED DeleteStep(i)

\* C21: nothing guards against deciding twice.  An approve or deny of an
\* authorized actor on a channel that holds a decision's notification and is
\* still there is accepted (an approve as long as the requester is found in
\* the guild); it posts a second notification in the channel, posts a second
\* log entry when the configured log channel resolves and the platform takes
\* the post, is acknowledged, and sleeps until its own delete attempt.
C21_DecidedTwice ==
    /\ []C21_AttemptScheduled
    /\ [][C21_AcceptedAgain /\ C21_NotifiesAgain /\ C21_LogsAndSchedulesAgain]_vars

\* A ticket was approved, its deletion refused; the denial made afterwards
\* posted the second notification and the second log entry and sleeps.
C21_Witness ==
    /\ Len(decisions) = 2
    /\ Ended(1) /\ decisions[1].op = "approve"
    /\ Sleeping(2) /\ decisions[2].op = "deny" /\ decisions[2].log_posted
    /\ decisions[1].channel = decisions[2].channel
    /\ decisions[1].channel > NumStatic
    /\ Cardinality(NotificationsIn(decisions[1].channel)) = 2
    /\ Cardinality(LogEntriesIn(LogChannel)) = 2

----------------------------------------------------------------------------
(* C22 *)

\* The ticket counter config.json holds
Counter(f) == Persisted(f).ticket_counter

\* What config.json holds beside the field given
Beside(f, field) ==
    [k \in (DOMAIN Persisted(f)) \ {field} |-> Persisted(f)[k]]

\* The counter never goes down; a createTicket raises it by one and leaves
\* the rest; nothing else changes it
C22_CounterByCreateTicket ==
    /\ Counter(file') >= Counter(file)
    /\ TicketStarts
       => /\ Counter(file') = Counter(file) + 1
          /\ Beside(file', "ticket_counter") = Beside(file, "ticket_counter")
    /\ Counter(file') # Counter(file) => TicketStarts

\* A setup command sets the bindings it was given and keeps every other
\* value as config.json holds it at that moment
C22_SetupsSetWhatWasGiven ==
    /\ \A args \in SetupRolesArgs :
          SetupRoles(args)
          => /\ \A k \in RoleKeys :
                   Persisted(file').roles[k] =
                      IF args[k] # 0 THEN args[k] ELSE Persisted(file).roles[k]
             /\ Beside(file', "roles") = Beside(file, "roles")
    /\ \A args \in SetupChannelsArgs :
          SetupChannels(args)
          => /\ Persisted(file').welcome_channel_id =
                   IF args.welcome_channel # 0 THEN args.welcome_channel
                   ELSE Persisted(file).welcome_channel_id
             /\ Persisted(file').verification_category_id =
                   IF args.verification_category # 0 THEN args.verification_category
                   ELSE Persisted(file).verification_category_id
             /\ Persisted(file').log_channel_id =
                   IF args.log_channel # 0 THEN args.log_channel
                   ELSE Persisted(file).log_channel_id
             /\ Persisted(file').roles = Persisted(file).roles
             /\ Persisted(file').welcome_message = Persisted(file).welcome_message
             /\ Counter(file') = Counter(file)
    /\ \A m \in WelcomeMessages :
          SetupMessage(m)
          => /\ Persisted(file').welcome_message = m
             /\ Beside(file', "welcome_message") = Beside(file, "welcome_message")

\* config.json is written by the setup commands and createTicket only
C22_OthersDoNotWrite ==
    /\ file' # file => (TicketStarts \/ nSetups' # nSetups)
    /\ (DecisionStarts \/ replies' # replies \/ members' # members
          \/ \E i \in 1..Len(decisions) : Moves(i))
       => file' = file

\* C22: in every interleaving of the handlers, the ticket counter in
\* config.json never decreases and changes only when a createTicket starts,
\* by exactly one; setup-roles, setup-channel and setup-message set the
\* bindings they were given and leave the counter and every other binding as
\* the file holds them at that moment, so no value is put back to an older
\* one; approve, deny, view-config, test-welcome and a member joining leave
\* the file as it is.
C22_ConfigWrites ==
    [][C22_CounterByCreateTicket /\ C22_SetupsSetWhatWasGiven /\ C22_OthersDoNotWrite]_vars

\* Started without a file: two tickets were asked for and two setup commands
\* run, one of them while a createTicket was waiting for its channel; a
\* decision was made and the configuration shown.  The file holds the counter
\* of the second ticket and both bindings.
C22_Witness ==
    /\ file # <<>>
    /\ file[1].roles["foreigner"] = 0
    /\ file[1].ticket_counter = 2
    /\ file[1].roles["president"] = 4
    /\ file[1].log_channel_id = LogChannel
    /\ Len(tickets) = 2 /\ tickets[1].pc = "create_text_channel"
    /\ nSetups = 2
    /\ Len(decisions) = 1
    /\ Len(replies) = 1 /\ replies[1].command = "view-config"
    /\ replies[1].ticket_counter = 1

----------------------------------------------------------------------------
(* C23 *)

\* The bindings that hold the moderator roles of a request type
ModeratorKeysOf(t) ==
    IF t = "embassy"
    THEN {"minister_foreign_affairs", "president", "vice_president"}
    ELSE {"border_control"}

\* The actor holds a configured moderator role of the request type
HoldsModeratorRoleOf(cfg, a, t) ==
    \E k \in ModeratorKeysOf(t) : cfg.roles[k] # 0 /\ cfg.roles[k] \in ActorRoles(a)

\* The approve or deny that starts gets past the authorization check
PassesAuthorization == Started.response \notin {"not_ticket", "unauthorized"}

C23_AuthorizedByType ==
    (/\ DecisionStarts
     /\ BeginsLikeTicket(channels[Started.channel].name)
     /\ ~ActorIsAdministrator(Started.actor)
     /\ PassesAuthorization)
    => HoldsModeratorRoleOf(load_config, Started.actor, TypeOfChannel(Started.channel))

\* C23: an approve or deny of an actor who is no administrator gets past the
\* authorization check only if the actor holds a moderator role of the
\* ticket's type: border_control on a citizen or foreigner ticket;
\* minister_foreign_affairs, president or vice_president on an embassy ticket.
C23_ModeratorsDifferByType == [][C23_AuthorizedByType]_vars

----------------------------------------------------------------------------
(* C24 *)

\* createTicket i failed after it took its ID
FailedTicket(i) ==
    i <= Len(tickets) /\ tickets[i].response \in {"no_category_permission", "create_forbidden"}

\* Every ID taken, by a createTicket that failed as well, is counted in
\* config.json; later tickets have larger IDs; a failed createTicket has no
\* channel
C24_ConsumedIdsStayConsumed ==
    /\ \A i \in 1..Len(tickets) : tickets[i].ticket_id <= Counter(file)
    /\ \A i, j \in 1..Len(tickets) : i < j => tickets[i].ticket_id < tickets[j].ticket_id
    /\ \A i \in 1..Len(tickets) : FailedTicket(i) => ~channels[TicketChannelId(i)].exists
    /\ \A c \in TicketChannels :
          \E i \in 1..Len(tickets) :
              c = TicketChannelId(i) /\ TopicTicketId(c) = tickets[i].ticket_id

\* The step in which a createTicket fails leaves the raised counter in the
\* file; no step lowers it
C24_NoRollBack ==
    /\ Counter(file') >= Counter(file)
    /\ (TicketStarts /\ StartedTicket.response = "no_category_permission")
       => /\ StartedTicket.ticket_id = Counter(file) + 1
          /\ Counter(file') = Counter(file) + 1
    /\ \A i \in 1..Len(tickets) :
          (~FailedTicket(i) /\ FailedTicket(i)') => file' = file
    /\ TicketStarts
       => \A i \in 1..Len(tickets) : StartedTicket.ticket_id > tickets[i].ticket_id

\* C24: a createTicket that fails after the increment (the category
\* permission check fails, or the platform refuses the channel) has its
\* increment in config.json and does not take it back: the ID stays consumed.
\* The channels that exist show the IDs of the createTickets that made them,
\* so their IDs may have gaps, and every later createTicket gets a larger ID
\* than any taken before, failed or not.
C24_FailedCreationConsumesId ==
    []C24_ConsumedIdsStayConsumed /\ [][C24_NoRollBack]_vars

\* The first createTicket was refused its channel, the second made one: the
\* only ticket channel shows the ID after the consumed one.
C24_Witness ==
    /\ Len(tickets) = 2
    /\ tickets[1].response = "create_forbidden"
    /\ tickets[2].response = "created"
    /\ TicketChannels = {TicketChannelId(2)}
    /\ TopicTicketId(TicketChannelId(2)) = tickets[1].ticket_id + 1
    /\ Counter(file) = tickets[2].ticket_id

----------------------------------------------------------------------------
(* C25 *)

\* The last message of one of these kinds in channel c, NoMessage if none
NoMessage == Message("", {}, 0, "", 0, "", "", 0)

LastOf(c, kinds) ==
    LET ks == {k \in 1..Len(channels[c].messages) : channels[c].messages[k].kind \in kinds}
    IN  IF ks = {} THEN NoMessage
        ELSE channels[c].messages[CHOOSE k \in ks : \A j \in ks : j <= k]

\* Channel c holds the notification of an approval that granted role r to u
ApprovedWithRole(c, u, r) ==
    \E m \in MessagesIn(c) :
        m.kind = "approved" /\ m.role = r /\ m.mentions = {<<"user", u>>}

\* A member keeps the roles held for as long as the member is in the guild
C25_RolesOnlyAdded ==
    \A u \in DOMAIN memberRoles :
        u \in members' => memberRoles[u] \subseteq memberRoles'[u]

\* The requester of an approval that granted a role holds that role, whatever
\* was decided on the channel afterwards
C25_GrantedRoleKept ==
    \A c \in ChannelIds, u \in members, r \in GuildRoleIds :
        ApprovedWithRole(c, u, r) => r \in memberRoles[u]

\* C25: no operation of the bot removes a role.  Once an approve granted a
\* role, the requester holds it for as long as they are in the guild, also
\* when a deny on the same channel follows before the deletion, so that the
\* last notification in the channel and the last log entry say "denied".
C25_NoRoleRemoved ==
    []C25_GrantedRoleKept /\ [][C25_RolesOnlyAdded]_vars

\* The ticket was approved with the role granted, then denied: the last
\* notification and the last log entry are those of the denial, the channel is
\* still there, and the requester holds the role.
C25_Witness ==
    \E c \in TicketChannels, r \in GuildRoleIds :
        /\ ApprovedWithRole(c, Requester(c), r)
        /\ LastOf(c, NotificationKinds).kind = "denied"
        /\ LastOf(LogChannel, LogKinds).kind = "log_denied"
        /\ LastOf(LogChannel, LogKinds).inv = LastOf(c, NotificationKinds).inv
        /\ r \in memberRoles[Requester(c)]

----------------------------------------------------------------------------
(* C26 *)

\* Decision i is under way: it was accepted and is not yet acknowledged
UnderWay(i) == decisions[i].pc \in {"add_roles", "channel_send", "log_send"}

\* The role an approve grants by the bindings b, 0 if none
RoleBy(b, op, c) ==
    IF op = "approve" /\ TypeOfChannel(c) \in {"citizen", "foreigner"}
    THEN get_role(b.roles[GrantKey(TypeOfChannel(c))])
    ELSE 0

\* The statement as the specification makes it, for the log channel: once the
\* notification is posted, the decision logs where the configuration loaded at
\* its start says, and warns by that configuration.
C26_LogsBySnapshot ==
    \A i \in 1..Len(decisions) :
        /\ (decisions[i].pc = "channel_send" /\ Moves(i) /\ decisions'[i].response # "raised")
           => IF Resolved(decisions[i].loaded.log_channel_id) # 0
              THEN /\ decisions'[i].pc = "log_send"
                   /\ decisions'[i].log_channel = decisions[i].loaded.log_channel_id
              ELSE /\ decisions'[i].pc = "sleep"
                   /\ decisions'[i].warning <=> decisions[i].loaded.log_channel_id # 0
        /\ (decisions[i].pc = "log_send" /\ Moves(i))
           => (decisions'[i].warning
                 <=> (~decisions'[i].log_posted /\ decisions[i].loaded.log_channel_id # 0))

\* The authorization and the role to grant are those of the configuration
\* loaded at the start, up to the grant and the notification
C26_RolesBySnapshot ==
    /\ (DecisionStarts /\ Started.pc # "done")
       => /\ Started.loaded = Bindings(Persisted(file))
          /\ Authorized(Started.loaded, Started.actor)
          /\ Started.role_to_give = RoleBy(Started.loaded, Started.op, Started.channel)
    /\ \A i \in 1..Len(decisions) :
          /\ (UnderWay(i) /\ UnderWay(i)')
             => /\ decisions'[i].loaded = decisions[i].loaded
                /\ decisions'[i].role_to_give = decisions[i].role_to_give
          /\ AddRoles(i, "ok")
             => memberRoles'[decisions[i].member] =
                   memberRoles[decisions[i].member]
                      \cup {RoleBy(decisions[i].loaded, decisions[i].op, decisions[i].channel)}
          /\ (decisions[i].pc = "channel_send" /\ Moves(i) /\ decisions'[i].response # "raised")
             => Posted(decisions[i].channel).role =
                   RoleBy(decisions[i].loaded, decisions[i].op, decisions[i].channel)

\* The original statement: every configuration value an approve or deny uses
\* is that of the configuration loaded at its start.
C26_AllFromSnapshot == [][C26_RolesBySnapshot /\ C26_LogsBySnapshot]_vars

\* The log channel is read from the global when the notification has been
\* posted, and again for the warning when the log post has answered
C26_LogsByGlobal ==
    \A i \in 1..Len(decisions) :
        /\ (decisions[i].pc = "channel_send" /\ Moves(i) /\ decisions'[i].response # "raised")
           => IF Resolved(config.log_channel_id) # 0
              THEN /\ decisions'[i].pc = "log_send"
                   /\ decisions'[i].log_channel = config.log_channel_id
              ELSE /\ decisions'[i].pc = "sleep"
                   /\ decisions'[i].warning <=> config.log_channel_id # 0
        /\ (decisions[i].pc = "log_send" /\ Moves(i))
           => (decisions'[i].warning
                 <=> (~decisions'[i].log_posted /\ config.log_channel_id # 0))

\* C26: within one approve or deny, the moderator roles of the authorization
\* and the role to grant come from the configuration loaded at the start of
\* the invocation, also when a setup command changes the configuration while
\* the invocation waits for a network call.  The log channel does not: it is
\* read from the global configuration after the notification was posted, and
\* once more for the warning, so it is the one the last handler that started
\* since has loaded.
C26_SnapshotForRolesOnly ==
    [][C26_RolesBySnapshot /\ C26_LogsByGlobal]_vars

\* An invocation that loaded a configuration without a usable log channel
\* waits for its post in the log channel a setup command bound meanwhile.
C26_Witness ==
    \E i \in 1..Len(decisions) :
        /\ decisions[i].pc = "log_send"
        /\ decisions[i].loaded.log_channel_id # LogChannel
        /\ decisions[i].log_channel = LogChannel
        /\ config.log_channel_id = LogChannel

----------------------------------------------------------------------------
(* C27 *)

\* Channel c was made by a createTicket
MadeByCreateTicket(c) ==
    \E i \in 1..Len(tickets) : c = TicketChannelId(i) /\ tickets[i].channel = c

\* The channel is deleted in this step
Deleted(c) == channels[c].exists /\ ~channels'[c].exists

C27_DeletedWasMade ==
    \A c \in ChannelIds :
        Deleted(c) => (MadeByCreateTicket(c) /\ ~NoRequesterInTopic(c))

\* C27: the bot deletes only channels that createTicket made.  A channel whose
\* name begins with citizen-, foreigner- or embassy- but which no createTicket
\* made, and whose topic names no requester, is never deleted by an approve or
\* a deny, whoever runs it.
C27_OnlyTicketsDeleted == [][C27_DeletedWasMade]_vars

----------------------------------------------------------------------------
(* C28 *)

\* The binding of the role to grant on channel c is unset or names a role
\* that is not in the guild
NoRoleToGrant(cfg, c) ==
    /\ TypeOfChannel(c) \in {"citizen", "foreigner"}
    /\ cfg.roles[GrantKey(TypeOfChannel(c))] \notin GuildRoleIds

\* Decision i is an approval of a citizen or foreigner request without a role
RolelessApproval(i) ==
    /\ decisions[i].op = "approve"
    /\ decisions[i].request_type \in {"citizen", "foreigner"}
    /\ decisions[i].role_to_give = 0

\* Such an approve is accepted and skips the grant
C28_AcceptedWithoutRole ==
    (/\ DecisionStarts
     /\ Started.op = "approve"
     /\ NoRoleToGrant(load_config, Started.channel)
     /\ Authorized(load_config, Started.actor)
     /\ ParseUserId(channels[Started.channel].topic) \in members)
    => /\ Started.pc = "channel_send"
       /\ Started.response = "none"
       /\ Started.role_to_give = 0
       /\ UNCHANGED memberRoles

\* It goes on as an approval: the notification without a role, the log entry
\* when the log channel takes it, the acknowledgment and the sleep; no role is
\* granted on the way
C28_CompletesAsApproval ==
    \A i \in 1..Len(decisions) :
        (RolelessApproval(i) /\ Moves(i))
        => /\ UNCHANGED memberRoles
           /\ decisions[i].pc = "channel_send"
              => /\ NewMessageIn(decisions[i].channel)
                 /\ Posted(decisions[i].channel).kind = "approved"
                 /\ Posted(decisions[i].channel).role = 0
                 /\ Posted(decisions[i].channel).mentions = {<<"user", decisions[i].member>>}
                 /\ IF LogChannelResolves(config)
                    THEN decisions'[i].pc = "log_send"
                    ELSE decisions'[i].pc = "sleep" /\ decisions'[i].response = "ack"
           /\ decisions[i].pc = "log_send"
              => /\ decisions'[i].pc = "sleep" /\ decisions'[i].response = "ack"
                 /\ LogSend(i, "ok")
                    => /\ Posted(decisions[i].log_channel).kind = "log_approved"
                       /\ Posted(decisions[i].log_channel).role = 0
                       /\ Posted(decisions[i].log_channel).inv = i

\* An approval under way without a role never waits for a grant
C28_NoGrantAsked ==
    \A i \in 1..Len(decisions) :
        decisions[i].pc = "add_roles" => decisions[i].role_to_give \in GuildRoleIds

\* C28: an approve on a citizen or foreigner ticket whose role to grant is
\* unset in the configuration, or bound to a role that is no longer in the
\* guild, completes as an approval: it is accepted, no role is granted and no
\* error reported, the approval notification without a granted role is
\* posted, the decision is logged (when the log channel resolves and takes the
\* post), the moderator is acknowledged and the deletion is scheduled.
C28_ApprovalWithoutRole ==
    /\ []C28_NoGrantAsked
    /\ [][C28_AcceptedWithoutRole /\ C28_CompletesAsApproval]_vars

\* A citizen ticket was approved while the belgian binding named no role of
\* the guild: the approval is in the channel and in the log, the handler
\* sleeps, and the requester holds no role.
C28_Witness ==
    \E c \in TicketChannels, i \in 1..Len(decisions) :
        /\ TypeOfChannel(c) = "citizen"
        /\ load_config.roles["belgian"] \in StaleRoleIds
        /\ decisions[i].channel = c /\ decisions[i].op = "approve"
        /\ Sleeping(i) /\ decisions[i].log_posted
        /\ \E m \in MessagesIn(c) : m.kind = "approved" /\ m.inv = i /\ m.role = 0
        /\ \E m \in MessagesIn(LogChannel) : m.kind = "log_approved" /\ m.inv = i
        /\ memberRoles[Requester(c)] = {}

============================================================================
